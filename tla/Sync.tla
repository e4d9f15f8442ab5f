-------------------------------- MODULE Sync --------------------------------
(***************************************************************************)
(* The two primitives of critical_concurrency that are built on one mutex  *)
(* and one condition variable, the barrier and the semamore.  A behaviour  *)
(* uses one of them, chosen in the initial state; the other rests.         *)
(***************************************************************************)
EXTENDS Barrier

CONSTANTS Initial, max_val, Program   (* of Semamore                        *)

VARIABLES
  primitive,  (* the one that is used: "barrier" or "semamore"            *)
  m, sleeping, spc, at, value   (* the variables of Semamore              *)

Sem == INSTANCE Semamore WITH pc <- spc

ASSUME SemAssumption == Sem!SemamoreAssumption

semvars == <<m, sleeping, spc, at, value>>
allvars == <<primitive, vars, semvars>>

UsesBarrier == primitive = "barrier" /\ UNCHANGED <<primitive, semvars>>
UsesSemamore == primitive = "semamore" /\ UNCHANGED <<primitive, vars>>

SyncInit == primitive \in {"barrier", "semamore"} /\ Init /\ Sem!Init
SyncNext ==
  \/ UsesBarrier /\ Next
  \/ UsesSemamore /\ Sem!Next

(* Every thread is scheduled, and no thread that keeps asking for the mutex *)
(* is passed over for ever.                                                 *)
SyncSpec ==
  /\ SyncInit /\ [][SyncNext]_allvars
  /\ \A t \in Threads :
       /\ WF_allvars((UsesBarrier /\ Holding(t)) \/ (UsesSemamore /\ Sem!Step(t)))
       /\ SF_allvars((UsesBarrier /\ Lock(t)) \/ (UsesSemamore /\ Sem!Lock(t)))

(***************************************************************************)
(* Properties.                                                             *)
(***************************************************************************)
(* Nobody sleeps whose round of barrier_wait is over, and no semm_wait or   *)
(* semm_post that could go through, although waiters and posters share one  *)
(* condition variable; and the semamore's value is never out of its range.  *)
NobodyStranded == NoStrandedWaiter /\ Sem!NoStrandedWaiter

(* Every thread gets through all its rounds of barrier_wait, and threads    *)
(* whose semm_wait and semm_post calls balance all finish.                  *)
AllDone == <>(\/ primitive = "barrier" /\ Finished
              \/ primitive = "semamore" /\ Sem!Finished)
=============================================================================
