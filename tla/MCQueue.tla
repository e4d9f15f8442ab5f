------------------------------ MODULE MCQueue ------------------------------
(* An instance of Queue for TLC: producers and consumers of unequal speed,  *)
(* and items that are left for queue_destroy.                               *)
EXTENDS Queue, TLC

CONSTANTS t1, t2, t3, t4

MixedProgram ==
  (t1 :> <<"push", "push", "push", "push">>) @@
  (t2 :> <<"pull", "push">>) @@
  (t3 :> <<"pull">>) @@
  (t4 :> <<"pull">>)
=============================================================================
