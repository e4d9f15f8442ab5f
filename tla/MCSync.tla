------------------------------- MODULE MCSync -------------------------------
(* Threads and their calls for TLC. *)
EXTENDS Sync, TLC

CONSTANTS t1, t2, t3, t4

(* Waiters and posters on a semamore whose ceiling is 1. *)
Balanced ==
  (t1 :> <<"wait", "wait", "wait">>) @@ (t2 :> <<"wait", "wait", "post">>) @@
  (t3 :> <<"post", "post">>) @@ (t4 :> <<"post", "post">>)
=============================================================================
