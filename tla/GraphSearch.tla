---------------------------- MODULE GraphSearch ----------------------------
(***************************************************************************)
(* The two depth-first searches of the repository, as they are coded:      *)
(* isCycle of deadlock_demolition/libdrm.c, which Drm replaces by a        *)
(* definition of "has a cycle", and the cycle check that parmake runs      *)
(* before it starts its workers.  Both are compared with that definition   *)
(* on every directed graph over Nodes.                                     *)
(***************************************************************************)
EXTENDS Integers, Sequences, FiniteSets, SequencesExt

CONSTANT Nodes   (* the vertices, in the order the graph library lists them *)

Vertices == ToSet(Nodes)

VARIABLES edges, done, drm, make

vars == <<edges, done, drm, make>>

(* graph_neighbors *)
Neighbors(E, n) == SelectSeq(Nodes, LAMBDA x : <<n, x>> \in E)

(***************************************************************************)
(* libdrm.c.  s holds the dictionaries visited and stacked and whether a   *)
(* cycle was found; a search that found one returns at once.               *)
(***************************************************************************)
RECURSIVE DFS(_, _, _), VisitAll(_, _, _)

(* Mutant: the node stays in stacked after its neighbours are done. *)
MutLeave(s, n) == s
Leave(s, n) == [s EXCEPT !.stacked = @ \ {n}]

VisitAll(E, ns, s) ==
  IF ns = <<>> THEN s
  ELSE LET n == Head(ns)
           r == IF n \notin s.visited THEN DFS(E, n, s)
                ELSE [s EXCEPT !.found = n \in s.stacked]
       IN  IF r.found THEN r ELSE VisitAll(E, Tail(ns), r)

DFS(E, n, s) ==
  LET entered == [s EXCEPT !.visited = @ \cup {n}, !.stacked = @ \cup {n}]
      r == VisitAll(E, Neighbors(E, n), entered)
  IN  IF r.found THEN r ELSE Leave(r, n)

(* The outer loop skips visited vertices, as the inner one does; between    *)
(* its iterations stacked is empty, so the other test never applies.        *)
isCycle(E) ==
  VisitAll(E, Nodes, [visited |-> {}, stacked |-> {}, found |-> FALSE]).found

(***************************************************************************)
(* parmake.c.  invalid holds the targets whose valid_target value is 1;    *)
(* visited and visiting start empty for every target of the outer loop.    *)
(***************************************************************************)
RECURSIVE DFS_cycle(_, _, _), DependAll(_, _, _)

DependAll(E, ns, s) ==
  IF ns = <<>> THEN s
  ELSE LET r == DFS_cycle(E, Head(ns), s)
       IN  IF r.found THEN r ELSE DependAll(E, Tail(ns), r)

Done(s, t) == [s EXCEPT !.visiting = @ \ {t}, !.visited = @ \cup {t}]

DFS_cycle(E, t, s) ==
  CASE t \in s.invalid -> s
    [] t \notin s.invalid /\ t \in s.visiting ->
         [s EXCEPT !.invalid = @ \cup {t}, !.found = TRUE]
    [] t \notin s.invalid \cup s.visiting /\ t \in s.visited -> s
    [] OTHER ->
         LET r == DependAll(E, Neighbors(E, t), [s EXCEPT !.visiting = @ \cup {t}])
         IN  IF r.found THEN [r EXCEPT !.invalid = @ \cup {t}]
             ELSE Done(r, t)

(* The targets for which print_cycle_failure is called. *)
RECURSIVE CheckAll(_, _, _)
CheckAll(E, ts, invalid) ==
  IF ts = <<>> THEN {}
  ELSE LET r == DFS_cycle(E, Head(ts), [visited |-> {}, visiting |-> {},
                                        invalid |-> invalid, found |-> FALSE])
       IN  (IF r.found THEN {Head(ts)} ELSE {}) \cup CheckAll(E, Tail(ts), r.invalid)

(***************************************************************************)
(* Every graph is searched once.                                           *)
(***************************************************************************)
Init ==
  /\ edges \in SUBSET (Vertices \X Vertices)
  /\ done = FALSE /\ drm = FALSE /\ make = {}

Search ==
  /\ ~done
  /\ done' = TRUE
  /\ drm' = isCycle(edges)
  /\ make' = CheckAll(edges, Nodes, {})
  /\ UNCHANGED edges

Spec == Init /\ [][Search]_vars

(***************************************************************************)
(* Properties.                                                             *)
(***************************************************************************)
(* Some set of vertices has a successor of each of its members in it. *)
Cyclic(S) == S # {} /\ \A x \in S : \E y \in S : <<x, y>> \in edges
HasCycle == \E S \in SUBSET Vertices : Cyclic(S)

(* The vertices from which a cycle can be reached. *)
LeadsToCycle == UNION {S \in SUBSET Vertices : Cyclic(S)}

(* libdrm's search finds a cycle exactly when there is one, although one    *)
(* visited dictionary serves all the roots.  parmake builds nothing exactly *)
(* when the makefile has a cycle, and it blames only targets from which a   *)
(* cycle can be reached, although valid_target makes it skip targets that   *)
(* it has blamed before.                                                    *)
SearchesExact ==
  done => /\ drm <=> HasCycle
          /\ make # {} <=> HasCycle
          /\ make \subseteq LeadsToCycle
=============================================================================
