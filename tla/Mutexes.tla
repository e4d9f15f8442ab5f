------------------------------ MODULE Mutexes ------------------------------
(***************************************************************************)
(* The deadlock resistant mutexes, Drm, with names of their own beside     *)
(* those of the other libraries, and what they promise.                    *)
(***************************************************************************)
CONSTANTS
  Threads, Drms,
  Nobody       (* NULL of Drm                                              *)

VARIABLES
  made, created, vertices, edges, global, mtx, pc, want, overlap

Lm == INSTANCE Drm WITH NULL <- Nobody

ASSUME MutexesAssumption == Lm!DrmAssumption

(* With the fairness of Drm: threads inside drm_wait are scheduled, and     *)
(* owners post what they hold.                                              *)
MutexSpec == Lm!FairSpec

(***************************************************************************)
(* Properties.                                                             *)
(***************************************************************************)
(* The graph and the owners of the mutexes differ only inside drm_wait,     *)
(* until two drm_init calls overlap (libdrm.c:60,110-116).                  *)
GraphAgrees == Lm!GraphAgrees

(* Threads never block one another in a circle, until two drm_init calls    *)
(* overlap (libdrm.c:102-110).                                              *)
DeadlockFree == Lm!DeadlockFree

(* drm_wait refuses exactly the requests that would deadlock, until two     *)
(* drm_init calls overlap (libdrm.c:103).                                   *)
RefusesExactly == Lm!RefusesExactly

(* A thread that calls drm_wait returns from it, unless drm_init calls have *)
(* overlapped or somebody left with global locked (libdrm.c:92-116).        *)
WaitReturns == Lm!WaitReturns
=============================================================================
