------------------------------ MODULE Crackers ------------------------------
(***************************************************************************)
(* The two password crackers side by side, each with variables of its own: *)
(* their properties, under the assumptions on their inputs.                *)
(***************************************************************************)
EXTENDS Integers

CONSTANTS
  Workers, Nothing,         (* the threads of either, and its NULL          *)
  Tasks, Crackable, Known,  (* of Cracker1                                  *)
  Users, Candidates, Secret (* of Cracker2                                  *)

VARIABLES
  tasks, main1, num_tasks, pc1, task, success, result1, summary1,
  main2, user, working, answer, pc2, i, of, hash_count, result2, summary2

cracker1 == <<tasks, main1, num_tasks, pc1, task, success, result1, summary1>>
cracker2 == <<main2, user, working, answer, pc2, i, of, hash_count, result2, summary2>>

C1 == INSTANCE Cracker1
        WITH NULL <- Nothing, queue <- tasks, main <- main1, pc <- pc1,
             result <- result1, summary <- summary1
C2 == INSTANCE Cracker2
        WITH NULL <- Nothing, main <- main2, pc <- pc2, result <- result2,
             summary <- summary2

ASSUME CrackersAssumption == C1!Cracker1Assumption /\ C2!Cracker2Assumption

(***************************************************************************)
(* Properties.                                                             *)
(***************************************************************************)
(* cracker1: every line that main read is in one place, one sentinel        *)
(* circulates from the end of the input on, and the summary counts what was *)
(* reported.                                                                *)
NothingLost == C1!NothingLost

(* cracker2: the summary of a user is right although answer is shared       *)
(* without a lock, and workers are cancelled for a reason.                  *)
SummaryCorrect == C2!SummaryCorrect
=============================================================================
