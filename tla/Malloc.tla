------------------------------- MODULE Malloc -------------------------------
(***************************************************************************)
(* malloc/alloc.c: an allocator on sbrk.  Blocks tile the heap, each with  *)
(* a header; free blocks are in the doubly linked list of their size class.*)
(* Addresses and sizes are counted in units; a block is named by the       *)
(* address of its header.  A call of the library is one step: it has no    *)
(* locks, and its callers are one thread.                                  *)
(***************************************************************************)
EXTENDS Integers, Sequences, FiniteSets, FiniteSetsExt, SequencesExt, Functions

CONSTANTS
  block_size,   (* the bounds of the size classes, 0 .. 15 in the code    *)
  META, SPLIT,  (* sizeof(meta), and the least a split may leave          *)
  SEARCH, FREE, (* from class SEARCH on: best fit; above FREE: give back  *)
  DefragLimit,  (* the code's 6                                           *)
  HeapLimit,    (* where sbrk fails                                       *)
  SizeMod,      (* size_t counts modulo this                              *)
  Sizes, Nums,  (* the sizes and numbers of elements callers ask for      *)
  NULL

Over == Cardinality(DOMAIN block_size)   (* 16 in the code: larger than any class *)
Addresses == 0..HeapLimit

(* What the constants stand for; the modules that instantiate this one     *)
(* assume it.                                                              *)
MallocAssumption ==
  /\ Over \in Nat \ {0} /\ block_size \in [0..(Over - 1) -> Nat \ {0}]
  /\ \A k \in 1..(Over - 1) : block_size[k - 1] < block_size[k]
  /\ META \in Nat \ {0} /\ SPLIT \in Nat /\ SEARCH \in Nat /\ FREE \in Nat /\ DefragLimit \in Nat
  /\ HeapLimit \in Nat /\ SizeMod \in Nat /\ SizeMod > HeapLimit
  /\ Sizes \subseteq Nat /\ Nums \subseteq Nat
  /\ NULL \notin Addresses

VARIABLES
  heap,     (* mem: the header at each block's address; freeList_head; brk *)
  defrag,
  held,     (* history: the blocks the callers hold, and what they asked for *)
  wrapped,  (* history: those of them that calloc multiplied wrongly for    *)
  outgrown  (* history: block_coalescing let a listed block leave its class *)

vars == <<heap, defrag, held, wrapped, outgrown>>

(* A header that is merged into another block or given back is forgotten:   *)
(* its bytes are the caller's, or unmapped.                                 *)
Header == [size : Nat, free : {0, 1}, next : Addresses \cup {NULL},
           prev : Addresses \cup {NULL}]

Init ==
  /\ heap = [mem |-> <<>>, head |-> [k \in 0..Over |-> NULL], brk |-> 0]
  /\ defrag = 0
  /\ held = <<>> /\ wrapped = {} /\ outgrown = FALSE

Without(f, a) == Restrict(f, DOMAIN f \ {a})
With(f, a, v) == [b \in DOMAIN f \cup {a} |-> IF b = a THEN v ELSE f[b]]

get_index(size) ==
  LET fits == {k \in 0..(Over - 1) : size <= block_size[k]}
  IN  IF fits = {} THEN Over ELSE Min(fits)

(* Mutant: the successor keeps its prev pointer. *)
MutRemoveblock(h, cur) ==
  LET b == h.mem[cur]
  IN  [h EXCEPT
        !.head = IF b.prev # NULL THEN @ ELSE [@ EXCEPT ![get_index(b.size)] = b.next],
        !.mem = [a \in DOMAIN @ |->
                  IF a = cur THEN [b EXCEPT !.next = NULL, !.prev = NULL]
                  ELSE [h.mem[a] EXCEPT !.next = IF a = b.prev THEN b.next ELSE @]]]

(* The head that is moved is the one of the block's present class. *)
removeblock(h, cur) ==
  LET b == h.mem[cur]
      m == [a \in DOMAIN h.mem |->
             IF a = cur THEN [b EXCEPT !.next = NULL, !.prev = NULL]
             ELSE [h.mem[a] EXCEPT !.next = IF a = b.prev THEN b.next ELSE @,
                                   !.prev = IF a = b.next THEN b.prev ELSE @]]
  IN  [h EXCEPT
        !.head = IF b.prev # NULL THEN @ ELSE [@ EXCEPT ![get_index(b.size)] = b.next],
        !.mem = m]

addblock(h, cur) ==
  LET k == get_index(h.mem[cur].size)
      first == h.head[k]
      m == [a \in DOMAIN h.mem |->
             IF a = cur THEN [h.mem[a] EXCEPT !.next = first, !.prev = NULL]
             ELSE [h.mem[a] EXCEPT !.prev = IF a = first THEN cur ELSE @]]
  IN  [h EXCEPT !.head[k] = cur, !.mem = m]

End(h, cur) == cur + META + h.mem[cur].size

combine_next(h, cur) ==
  LET next == End(h, cur)
      g == removeblock(h, next)
  IN  IF next < h.brk /\ h.mem[next].free = 1
      THEN [g EXCEPT !.mem = Without([g.mem EXCEPT ![cur].size =
                                        @ + META + h.mem[next].size], next)]
      ELSE h

(* sbrk with a negative argument *)
give_back(h, cur) ==
  [h EXCEPT !.mem = Without(@, cur), !.brk = @ - (META + h.mem[cur].size)]

(* One round of the loop of block_coalescing, and enough rounds.  A merged  *)
(* block stays in its list though it may be too large for it: removeblock   *)
(* will then move the head of another list, and this one keeps a block that *)
(* is in use or not there.  The loop is not followed beyond that.           *)
Class(h, cur) == get_index(h.mem[cur].size)
Onward(g, cur, leaves) ==
  IF End(g, cur) >= g.brk
  THEN [h |-> give_back(removeblock(g, cur), cur), cur |-> NULL, leaves |-> leaves]
  ELSE [h |-> g, cur |-> g.mem[cur].next, leaves |-> leaves]
CoalesceRound(s) ==
  IF s.leaves \/ s.cur \notin DOMAIN s.h.mem THEN s
  ELSE LET g == IF s.h.mem[s.cur].free = 1 THEN combine_next(s.h, s.cur) ELSE s.h
       IN  Onward(g, s.cur, Class(g, s.cur) # Class(s.h, s.cur))
Rounds(h) == [n \in 1..Cardinality(DOMAIN h.mem) |-> n]
Coalesce(h, k) ==
  FoldLeft(LAMBDA s, n : CoalesceRound(s), [h |-> h, cur |-> h.head[k], leaves |-> FALSE],
           Rounds(h))
block_coalescing(h, k) == Coalesce(h, k).h

(* The blocks of list k, in order.  A pointer to a block that was given     *)
(* back ends the list, as its header says if its page is still mapped (if   *)
(* not, the program is stopped): ListsSound says there is none.             *)
List(h, k) ==
  FoldLeft(LAMBDA s, n : IF s.cur \notin DOMAIN h.mem THEN s
                         ELSE [seq |-> Append(s.seq, s.cur), cur |-> h.mem[s.cur].next],
           [seq |-> <<>>, cur |-> h.head[k]], Rounds(h)).seq

(* Mutant: any free block of the class will do. *)
MutFitting(h, list, size) == {n \in DOMAIN list : h.mem[list[n]].free = 1}

(* The places in a list of the blocks that fit; the first of them, and the  *)
(* first of the smallest.                                                   *)
Fitting(h, list, size) ==
  {n \in DOMAIN list : h.mem[list[n]].free = 1 /\ h.mem[list[n]].size >= size}
Smallest(h, list, places) ==
  {n \in places : \A i \in places : h.mem[list[n]].size <= h.mem[list[i]].size}
First(list, places) == IF places = {} THEN NULL ELSE list[Min(places)]
first_fit(h, size) ==
  LET list == List(h, get_index(size))
  IN  First(list, Fitting(h, list, size))
best_fit(h, size) ==
  LET list == List(h, get_index(size))
  IN  First(list, Smallest(h, list, Fitting(h, list, size)))

(* A block that is in use is not split, and every caller passes one. *)
block_splitting(h, cur, size) ==
  LET b == h.mem[cur]
      rest == [size |-> b.size - size - META, free |-> 1, next |-> NULL, prev |-> NULL]
  IN  IF b.free = 0 \/ ~(b.size - size > META + SPLIT) THEN h
      ELSE LET g == addblock([h EXCEPT !.mem = With(@, cur + META + size, rest)],
                             cur + META + size)
           IN  [g EXCEPT !.mem[cur].size = size]

(***************************************************************************)
(* malloc, free and realloc: the heap they leave and what they return.     *)
(***************************************************************************)
Defrags(size, d) == IF get_index(size) = Over - 1 /\ size # 0 THEN d + 1 ELSE d
Coalesces(size, d) ==
  /\ size # 0
  /\ \/ get_index(size) = Over
     \/ get_index(size) = Over - 1 /\ Defrags(size, d) > DefragLimit
Coalesced(h, size, d) ==
  IF Coalesces(size, d) THEN block_coalescing(h, get_index(size)) ELSE h
Outgrows(h, size, d) == Coalesces(size, d) /\ Coalesce(h, get_index(size)).leaves

Obtain(g, new, size) ==
  CASE new # NULL ->
         [h |-> block_splitting([removeblock(g, new) EXCEPT !.mem[new].free = 0], new, size),
          ptr |-> new]
    [] new = NULL /\ g.brk + META + size > HeapLimit -> [h |-> g, ptr |-> NULL]
    [] OTHER ->
         [h |-> [g EXCEPT !.mem = With(@, g.brk, [size |-> size, free |-> 0,
                                                  next |-> NULL, prev |-> NULL]),
                          !.brk = @ + META + size],
          ptr |-> g.brk]
Search(g, size) ==
  Obtain(g, IF get_index(size) >= SEARCH THEN best_fit(g, size) ELSE first_fit(g, size), size)
Malloc(h, size, d) ==
  IF size = 0 THEN [h |-> h, ptr |-> NULL] ELSE Search(Coalesced(h, size, d), size)
NextDefrag(size, d) == IF Defrags(size, d) > DefragLimit THEN 0 ELSE Defrags(size, d)

Release(g, ptr) ==
  IF get_index(g.mem[ptr].size) > FREE /\ End(g, ptr) >= g.brk
  THEN give_back(g, ptr)
  ELSE addblock([g EXCEPT !.mem[ptr].free = 1], ptr)
Free(h, ptr) == IF h.mem[ptr].free = 1 THEN h ELSE Release(combine_next(h, ptr), ptr)

(* realloc, once g has the next block combined: in place, or moved. *)
Moved(m, ptr) == [m EXCEPT !.h = IF m.ptr = NULL THEN @ ELSE Free(@, ptr)]
Grown(g, ptr, size, d) ==
  IF g.mem[ptr].size >= size THEN [h |-> g, ptr |-> ptr] ELSE Moved(Malloc(g, size, d), ptr)
Realloc(h, ptr, size, d) ==
  IF h.mem[ptr].size >= size
  THEN [h |-> block_splitting(h, ptr, size), ptr |-> ptr]
  ELSE Grown(combine_next(h, ptr), ptr, size, d)
(* ... which calls malloc only in its last case. *)
Mallocs(h, ptr, size) == combine_next(h, ptr).mem[ptr].size < size

(***************************************************************************)
(* The calls: r is what malloc or realloc did for bytes, and it takes the  *)
(* place of old when it is not NULL; the caller asked for size.            *)
(***************************************************************************)
Returns(r, old, bytes, size) ==
  /\ heap' = r.h
  /\ IF r.ptr = NULL THEN UNCHANGED <<held, wrapped>>
     ELSE /\ held' = With(Without(held, old), r.ptr, size)
          /\ wrapped' = (wrapped \ {old}) \cup (IF bytes # size THEN {r.ptr} ELSE {})

malloc(size) ==
  /\ Returns(Malloc(heap, size, defrag), NULL, size, size)
  /\ defrag' = NextDefrag(size, defrag)
  /\ outgrown' = Outgrows(heap, size, defrag)

(* The product wraps around. *)
calloc(num, size) ==
  LET bytes == (num * size) % SizeMod
  IN  /\ Returns(Malloc(heap, bytes, defrag), NULL, bytes, num * size)
      /\ defrag' = NextDefrag(bytes, defrag)
      /\ outgrown' = Outgrows(heap, bytes, defrag)

free(ptr) ==
  /\ heap' = Free(heap, ptr)
  /\ held' = Without(held, ptr) /\ wrapped' = wrapped \ {ptr}
  /\ UNCHANGED <<defrag, outgrown>>

(* realloc(ptr, 0) is free(ptr); realloc(NULL, size) is malloc(size). *)
realloc(ptr, size) ==
  /\ size # 0
  /\ Returns(Realloc(heap, ptr, size, defrag), ptr, size, size)
  /\ IF Mallocs(heap, ptr, size)
     THEN /\ defrag' = NextDefrag(size, defrag)
          /\ outgrown' = Outgrows(combine_next(heap, ptr), size, defrag)
     ELSE UNCHANGED <<defrag, outgrown>>

(* With a list that keeps what it should not, what the library does depends *)
(* on bytes that are the callers': there the model stops.                   *)
Next ==
  /\ ~outgrown
  /\ \/ \E size \in Sizes : malloc(size)
     \/ \E num \in Nums, size \in Sizes : calloc(num, size)
     \/ \E ptr \in DOMAIN held : free(ptr)
     \/ \E ptr \in DOMAIN held, size \in Sizes : realloc(ptr, size)

Spec == Init /\ [][Next]_vars

(***************************************************************************)
(* Properties.                                                             *)
(***************************************************************************)
Blocks == DOMAIN heap.mem

(* Every variable keeps its type, and defrag stays below its limit. *)
TypeOK ==
  /\ Blocks \subseteq Addresses
  /\ \A b \in Blocks : heap.mem[b] \in Header
  /\ heap.head \in [0..Over -> Addresses \cup {NULL}]
  /\ heap.brk \in Addresses /\ defrag \in 0..DefragLimit

(* The blocks tile the heap up to brk: each ends where the next begins.     *)
Tiled ==
  /\ Blocks # {} => 0 \in Blocks
  /\ \A b \in Blocks : End(heap, b) \in (Blocks \cup {heap.brk}) \ 0..b
  /\ \A b, c \in Blocks : b < c => End(heap, b) <= c
  /\ heap.brk = 0 <=> Blocks = {}

(* What a caller holds is one block, in use, at least as large as it asked  *)
(* for (unless calloc wrapped around), among blocks that tile the heap: no  *)
(* two callers share memory, after whatever splits, merges and shrinkings,  *)
(* until a block outgrows its class.                                        *)
HeldSafe ==
  ~outgrown =>
    /\ Tiled
    /\ \A p \in DOMAIN held : p \in Blocks /\ heap.mem[p].free = 0
    /\ \A p \in DOMAIN held \ wrapped : heap.mem[p].size >= held[p]

Listed == UNION {ToSet(List(heap, k)) : k \in 0..Over}

(* Every list holds free blocks of its own class, linked both ways, its     *)
(* head has no predecessor, and a block no caller holds is on a list,       *)
(* "available again for further allocations", until a block outgrows its    *)
(* class.                                                                   *)
ListsSound ==
  ~outgrown =>
    /\ \A k \in 0..Over :
         /\ heap.head[k] # NULL =>
              heap.head[k] \in Blocks /\ heap.mem[heap.head[k]].prev = NULL
         /\ \A b \in ToSet(List(heap, k)) :
              /\ heap.mem[b].free = 1 /\ Class(heap, b) = k
              /\ heap.mem[b].next # NULL =>
                   heap.mem[b].next \in Blocks /\ heap.mem[heap.mem[b].next].prev = b
    /\ Blocks \ DOMAIN held \subseteq Listed
=============================================================================
