-------------------------------- MODULE Drm --------------------------------
(***************************************************************************)
(* deadlock_demolition/libdrm.c: deadlock-resistant mutexes.  A resource   *)
(* allocation graph g holds an edge thread -> drm for a request and        *)
(* drm -> thread for ownership.  drm_wait refuses a request that would     *)
(* close a cycle.  The mutex global protects g; drm_wait releases it while *)
(* it blocks on the drm's own mutex, so g lags behind the mutexes between  *)
(* the lock of drm->mtx and the exchange of the edges.                     *)
(*                                                                         *)
(* A section under global runs to its unlock without blocking.  Those of   *)
(* drm_init, drm_post and of the end of drm_wait are one step.  The first  *)
(* section of drm_wait is one step for every use of g that tells whether   *)
(* an assignment to g came before or after it, because drm_init assigns g  *)
(* without global; two early returns of it leave global locked.            *)
(***************************************************************************)
CONSTANTS
  Threads, Drms,
  NULL

(* What the constants stand for; the modules that instantiate this one     *)
(* assume it.                                                              *)
DrmAssumption ==
  /\ Threads \cap Drms = {}
  /\ NULL \notin Threads \cup Drms

VARIABLES
  made,      (* made[d]: how far drm_init is with d                       *)
  created,   (* g # NULL                                                  *)
  vertices, edges,   (* the graph g points to                             *)
  global,    (* the thread that has global locked, or NULL                *)
  mtx,       (* mtx[d]: the owner of d's mutex, or NULL                   *)
  pc,        (* where a thread is                                         *)
  want,      (* want[t]: the drm t is asking for, or NULL                 *)
  overlap    (* ghost: have two calls of drm_init found g to be NULL?     *)

vars == <<made, created, vertices, edges, global, mtx, pc, want, overlap>>
graph == <<created, vertices, edges>>

Init ==
  /\ made = [d \in Drms |-> "none"]
  /\ created = FALSE /\ vertices = {} /\ edges = {}
  /\ global = NULL
  /\ mtx = [d \in Drms |-> NULL]
  /\ pc = [t \in Threads |-> "idle"]
  /\ want = [t \in Threads |-> NULL]
  /\ overlap = FALSE

(***************************************************************************)
(* isCycle: the depth-first search finds a cycle exactly when some set of  *)
(* nodes has a successor of each of its nodes in it (GraphSearch checks   *)
(* the search itself against this).                                        *)
(***************************************************************************)
isCycle(E) ==
  \E S \in SUBSET (Threads \cup Drms) :
    /\ S # {}
    /\ \A x \in S : \E y \in S : <<x, y>> \in E

(***************************************************************************)
(* drm_init: the test of g and its creation are not under global.  No      *)
(* drm_init follows a drm_destroy, which destroys global.                  *)
(***************************************************************************)
(* if( g == NULL ) *)
drm_init_test(d) ==
  /\ made[d] = "none" /\ \A e \in Drms : made[e] # "destroyed"
  /\ made' = [made EXCEPT ![d] = IF created THEN "alloc" ELSE "create"]
  /\ overlap' = (overlap \/ (~created /\ \E e \in Drms : made[e] = "create"))
  /\ UNCHANGED <<graph, global, mtx, pc, want>>

(* g = shallow_graph_create(): whatever graph there was is lost. *)
drm_init_create(d) ==
  /\ made[d] = "create"
  /\ created' = TRUE /\ vertices' = {} /\ edges' = {}
  /\ made' = [made EXCEPT ![d] = "alloc"]
  /\ UNCHANGED <<global, mtx, pc, want, overlap>>

(* malloc: without memory the caller gets NULL. *)
drm_init_alloc(d) ==
  /\ made[d] = "alloc"
  /\ \E m \in {"add", "failed"} : made' = [made EXCEPT ![d] = m]
  /\ UNCHANGED <<graph, global, mtx, pc, want, overlap>>

(* graph_add_vertex under global; from here on callers know d. *)
drm_init_add(d) ==
  /\ made[d] = "add"
  /\ global = NULL
  /\ vertices' = vertices \cup {d}
  /\ made' = [made EXCEPT ![d] = "ready"]
  /\ UNCHANGED <<created, edges, global, mtx, pc, want, overlap>>

(***************************************************************************)
(* drm_wait                                                                *)
(***************************************************************************)
Calls(t) == pc[t] = "idle" /\ global = NULL
Returns(t) ==
  /\ pc' = [pc EXCEPT ![t] = "idle"]
  /\ want' = [want EXCEPT ![t] = NULL]

(* The drm is NULL, or not a vertex: return 0, with global still locked. *)
drm_wait_unknown(t, d) ==
  /\ Calls(t)
  /\ made[d] = "failed" \/ (made[d] = "ready" /\ d \notin vertices)
  /\ global' = t
  /\ want' = [want EXCEPT ![t] = d]
  /\ UNCHANGED <<made, graph, mtx, pc, overlap>>

drm_wait_known(t, d) ==
  /\ Calls(t) /\ made[d] = "ready" /\ d \in vertices
  /\ global' = t
  /\ want' = [want EXCEPT ![t] = d]
  /\ pc' = [pc EXCEPT ![t] = "known"]
  /\ UNCHANGED <<made, graph, mtx, overlap>>

(* The thread becomes a vertex. *)
drm_wait_vertex(t) ==
  /\ pc[t] = "known"
  /\ vertices' = vertices \cup {t}
  /\ pc' = [pc EXCEPT ![t] = "vertex"]
  /\ UNCHANGED <<made, created, edges, global, mtx, want, overlap>>

(* t owns the drm already: return 0. *)
drm_wait_owner(t) ==
  /\ pc[t] = "vertex" /\ <<want[t], t>> \in edges
  /\ Returns(t)
  /\ global' = NULL
  /\ UNCHANGED <<made, graph, mtx, overlap>>

(* graph_add_edge: the library may or may not keep an edge to what is no    *)
(* vertex.                                                                  *)
WithEdge(E, x, y) ==
  {E \cup {<<x, y>>}} \cup (IF {x, y} \subseteq vertices THEN {} ELSE {E})

drm_wait_request(t) ==
  /\ pc[t] = "vertex" /\ <<want[t], t>> \notin edges
  /\ edges' \in WithEdge(edges, t, want[t])
  /\ pc' = [pc EXCEPT ![t] = "asked"]
  /\ UNCHANGED <<made, created, vertices, global, mtx, want, overlap>>

(* Mutant: only a thread that waits for what it owns itself is found. *)
MutSearch == \E d \in Drms, u \in Threads : {<<d, u>>, <<u, d>>} \subseteq edges
Search == isCycle(edges)

(* The request would close a cycle: the edge is taken back, return 0. *)
drm_wait_refuse(t) ==
  /\ pc[t] = "asked" /\ Search
  /\ edges' = edges \ {<<t, want[t]>>}
  /\ Returns(t)
  /\ global' = NULL
  /\ UNCHANGED <<made, created, vertices, mtx, overlap>>

drm_wait_unlock(t) ==
  /\ pc[t] = "asked" /\ ~Search
  /\ global' = NULL
  /\ pc' = [pc EXCEPT ![t] = "lock"]
  /\ UNCHANGED <<made, graph, mtx, want, overlap>>

(* pthread_mutex_lock( &drm->mtx ), without global *)
drm_wait_lock(t) ==
  /\ pc[t] = "lock" /\ mtx[want[t]] = NULL
  /\ mtx' = [mtx EXCEPT ![want[t]] = t]
  /\ pc' = [pc EXCEPT ![t] = "locked"]
  /\ UNCHANGED <<made, graph, global, want, overlap>>

(* Mutant: the request edge stays when the ownership edge is added. *)
MutGrantEdges(t, d) == WithEdge(edges, d, t)
GrantEdges(t, d) == WithEdge(edges \ {<<t, d>>}, d, t)

(* global again: the request becomes ownership, return 1 *)
drm_wait_grant(t) ==
  /\ pc[t] = "locked" /\ global = NULL
  /\ edges' \in GrantEdges(t, want[t])
  /\ Returns(t)
  /\ UNCHANGED <<made, created, vertices, global, mtx, overlap>>

(***************************************************************************)
(* drm_post and drm_destroy                                                *)
(***************************************************************************)
IsOwner(t, d) == <<d, t>> \in edges

(* A caller that does not own d gets 0 and changes nothing. *)
drm_post(t, d) ==
  /\ Calls(t) /\ made[d] = "ready" /\ IsOwner(t, d)
  /\ edges' = edges \ {<<d, t>>}
  /\ mtx' = [mtx EXCEPT ![d] = NULL]
  /\ UNCHANGED <<made, created, vertices, global, pc, want, overlap>>

(* A thread makes no more calls. *)
Exit(t) ==
  /\ pc[t] = "idle" /\ \A d \in Drms : <<d, t>> \notin edges
  /\ pc' = [pc EXCEPT ![t] = "exited"]
  /\ UNCHANGED <<made, graph, global, mtx, want, overlap>>

(* drm_destroy, called once the threads are joined and no drm_init is       *)
(* going on: it destroys global as well, which is why nobody may be left to *)
(* use any drm.                                                             *)
drm_destroy(d) ==
  /\ made[d] = "ready" /\ \A t \in Threads : pc[t] = "exited"
  /\ \A e \in Drms : made[e] \notin {"create", "alloc", "add"}
  /\ made' = [made EXCEPT ![d] = "destroyed"]
  /\ vertices' = vertices \ {d}
  /\ edges' = {e \in edges : e[1] # d /\ e[2] # d}
  /\ UNCHANGED <<created, global, mtx, pc, want, overlap>>

(***************************************************************************)
(* The specification.                                                      *)
(***************************************************************************)
InitStep(d) ==
  drm_init_test(d) \/ drm_init_create(d) \/ drm_init_alloc(d) \/ drm_init_add(d)

InWait(t) ==
  \/ drm_wait_vertex(t) \/ drm_wait_owner(t) \/ drm_wait_request(t)
  \/ drm_wait_refuse(t) \/ drm_wait_unlock(t)
  \/ drm_wait_lock(t) \/ drm_wait_grant(t)

Next ==
  \/ \E d \in Drms : InitStep(d) \/ drm_destroy(d)
  \/ \E t \in Threads :
       \/ \E d \in Drms :
            drm_wait_unknown(t, d) \/ drm_wait_known(t, d) \/ drm_post(t, d)
       \/ InWait(t) \/ Exit(t)

Spec == Init /\ [][Next]_vars

(* Threads inside drm_wait are scheduled and get a mutex that is free again *)
(* and again; a caller that owns a drm posts it when it is not itself       *)
(* inside drm_wait.                                                         *)
Fairness ==
  /\ \A t \in Threads : SF_vars(InWait(t))
  /\ \A d \in Drms : SF_vars(\E t \in Threads : drm_post(t, d))

FairSpec == Spec /\ Fairness

(***************************************************************************)
(* Properties.                                                             *)
(***************************************************************************)
(* Every variable of the model keeps its type. *)
TypeOK ==
  /\ made \in [Drms -> {"none", "create", "alloc", "add", "ready", "failed", "destroyed"}]
  /\ created \in BOOLEAN
  /\ vertices \in SUBSET (Threads \cup Drms)
  /\ edges \in SUBSET ((Threads \X Drms) \cup (Drms \X Threads))
  /\ global \in Threads \cup {NULL}
  /\ mtx \in [Drms -> Threads \cup {NULL}]
  /\ pc \in [Threads -> {"idle", "known", "vertex", "asked", "lock", "locked", "exited"}]
  /\ want \in [Threads -> Drms \cup {NULL}]
  /\ overlap \in BOOLEAN

(* An ownership edge d -> t is there exactly when t holds d's mutex and is  *)
(* past the exchange of edges, and a request edge exactly from the request  *)
(* in drm_wait to its refusal or that exchange.                             *)
EdgesTellOwners ==
  /\ \A d \in Drms, t \in Threads :
       <<d, t>> \in edges <=> mtx[d] = t /\ ~(pc[t] = "locked" /\ want[t] = d)
  /\ \A d \in Drms, t \in Threads :
       <<t, d>> \in edges <=> pc[t] \in {"asked", "lock", "locked"} /\ want[t] = d
  /\ \A t \in Threads : pc[t] = "locked" => mtx[want[t]] = t

(* A thread went away with global locked: nobody gets past it any more. *)
LockedOut == global # NULL /\ pc[global] \in {"idle", "exited"}

(* What the graph knows of the mutexes: as long as no two drm_init calls    *)
(* have both found g to be NULL, g and the owners differ only inside        *)
(* drm_wait, between the lock of drm->mtx and the exchange of the edges;    *)
(* every drm that drm_init returned is a vertex; and drm_wait leaves global *)
(* locked only for a drm that a drm_init without memory gave its caller as  *)
(* NULL.                                                                    *)
GraphAgrees ==
  ~overlap =>
    /\ EdgesTellOwners
    /\ \A d \in Drms : made[d] = "ready" => d \in vertices
    /\ LockedOut => made[want[global]] = "failed"

(* t is blocked in drm_wait by a drm that u holds. *)
BlockedBy(t, u) == pc[t] = "lock" /\ mtx[want[t]] = u

(* The promise of the library: threads that block in drm_wait never wait    *)
(* for one another in a circle, although the mutexes are taken at a time    *)
(* when g does not show it yet; as long as no two drm_init calls have both  *)
(* found g to be NULL.                                                      *)
DeadlockFree ==
  ~overlap =>
    ~ \E S \in SUBSET Threads :
        /\ S # {}
        /\ \A t \in S : \E u \in S : BlockedBy(t, u)

(* If t blocked on d, would it be part of a circle of blocked threads? *)
WouldDeadlock(t, d) ==
  \E S \in SUBSET Threads :
    /\ t \in S
    /\ \E u \in S : mtx[d] = u
    /\ \A v \in S \ {t} : \E u \in S : BlockedBy(v, u)

(* drm_wait refuses a request exactly when granting it would deadlock: the  *)
(* lag of g behind the mutexes causes neither missed circles nor false      *)
(* alarms, as long as no two drm_init calls have both found g to be NULL.   *)
RefusesExactly ==
  ~overlap => \A t \in Threads :
    pc[t] = "asked" => (Search <=> WouldDeadlock(t, want[t]))

(* A thread that has called drm_wait returns from it in the end, unless     *)
(* overlapping drm_init calls have lost the graph or a thread went away     *)
(* with global locked.                                                      *)
WaitReturns ==
  \A t \in Threads :
    pc[t] \notin {"idle", "exited"} ~> pc[t] = "idle" \/ overlap \/ LockedOut
=============================================================================
