----------------------------- MODULE MCLibrary -----------------------------
(***************************************************************************)
(* The components that one caller uses by a sequence of calls, or that     *)
(* compute one result: the heap allocator, the memory checker, the memory  *)
(* management unit, the vector, parallel reduce, the graph searches of     *)
(* libdrm and parmake, and dd.  A behaviour uses one of them, chosen in    *)
(* the initial state; the others rest.                                     *)
(***************************************************************************)
EXTENDS Mmu, Library, TLC

CONSTANT MaxCalls  (* bound on the calls of the memory management unit    *)

VARIABLES
  component,  (* the one that is used                                      *)
  calls,      (* of the memory management unit                             *)
  (* Vector *)
  size, array, value, life,
  (* Reduce *)
  list_len, num_threads, data, num, created, result, retvals, returned,
  (* GraphSearch *)
  edges, done, drm, make

mmu == <<vars, calls>>
vector == <<size, array, value, life>>
par_reduce == <<list_len, num_threads, data, num, created, result, retvals, returned>>
search == <<edges, done, drm, make>>
allvars == <<component, malloc, memcheck, mmu, vector, par_reduce, search, dd>>

(***************************************************************************)
(* The instances.                                                          *)
(***************************************************************************)
(* Two size classes instead of sixteen: merged neighbours of the upper one  *)
(* stay in it or outgrow it.                                                *)
Classes == (0 :> 1) @@ (1 :> 4)

Vec == INSTANCE Vector
         WITH INITIAL_CAPACITY <- 2, Values <- {1, 2}, Default <- 1, Elements <- 6,
              MaxSize <- 3

Red == INSTANCE Reduce WITH MaxLen <- 5, MaxThreads <- 4

(* All graphs over four vertices. *)
Gs == INSTANCE GraphSearch WITH Nodes <- <<1, 2, 3, 4>>

ASSUME PartAssumptions ==
  MmuAssumption /\ Vec!VectorAssumption /\ Red!ReduceAssumption

(***************************************************************************)
(* The choice.                                                             *)
(***************************************************************************)
Uses(c) ==
  /\ component = c
  /\ UNCHANGED component
  /\ c # "malloc" => UNCHANGED malloc
  /\ c # "memcheck" => UNCHANGED memcheck
  /\ c # "mmu" => UNCHANGED mmu
  /\ c # "vector" => UNCHANGED vector
  /\ c # "reduce" => UNCHANGED par_reduce
  /\ c # "search" => UNCHANGED search
  /\ c # "dd" => UNCHANGED dd

LibraryInit ==
  /\ component \in {"malloc", "memcheck", "mmu", "vector", "reduce", "search", "dd"}
  /\ Heap!Init /\ Mem!Init /\ Init /\ calls = 0 /\ Vec!Init
  /\ \/ component = "reduce" /\ Red!Init
     \/ /\ component # "reduce"
        /\ list_len = 0 /\ num_threads = 1
        /\ data = <<>> /\ num = 0 /\ created = 0
        /\ result = <<>> /\ retvals = <<>> /\ returned = <<>>
  /\ \/ component = "search" /\ Gs!Init
     \/ component # "search" /\ edges = {} /\ done = TRUE /\ drm = FALSE /\ make = {}
  /\ \/ component = "dd" /\ Copy!Init
     \/ /\ component # "dd"
        /\ opt = NULL /\ pos = 0 /\ buf = <<>> /\ output = <<>> /\ flag = FALSE
        /\ stats = NULL /\ report = NULL /\ signals = 0 /\ at = "failed"

LibraryNext ==
  \/ Uses("malloc") /\ Heap!Next
  \/ Uses("memcheck") /\ Mem!Next
  \/ Uses("mmu") /\ calls < MaxCalls /\ calls' = calls + 1 /\ Next
  \/ Uses("vector") /\ Vec!Next
  \/ Uses("reduce") /\ Red!Next
  \/ Uses("search") /\ Gs!Search
  \/ Uses("dd") /\ Copy!Next

LibrarySpec == LibraryInit /\ [][LibraryNext]_allvars

(***************************************************************************)
(* Properties.                                                             *)
(***************************************************************************)
(* The vector behaves as a sequence of values. *)
IsList == Vec!IsList

(* What the pure algorithms compute is what their reference definitions     *)
(* say: is_cyclic and goal_failed on every graph, whether it has the cycle, *)
(* and par_reduce, under every schedule, the reduction of the whole list.   *)
ResultsExact == Gs!SearchesExact /\ Red!ReduceExact
=============================================================================
