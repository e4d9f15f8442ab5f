------------------------------ MODULE Cracker2 ------------------------------
(***************************************************************************)
(* password_cracker/cracker2.c: for every user all workers search disjoint *)
(* ranges of candidates between two barriers that main takes part in.      *)
(* working, answer and hash_count are shared without a lock; the barriers  *)
(* alone order main's accesses and the workers'.  The barriers are the C   *)
(* library's.                                                              *)
(***************************************************************************)
EXTENDS Integers, FiniteSets

CONSTANTS
  Workers,
  NULL,
  Users,     (* the number of lines of stdin                              *)
  Candidates, (* how many getSubrange gives each worker                   *)
  Secret     (* Secret[k]: the candidates <<w, j>> with user k's hash     *)

(* What the constants stand for; the modules that instantiate this one     *)
(* assume it.                                                              *)
Cracker2Assumption ==
  /\ Users \in Nat /\ Candidates \in Nat
  /\ Secret \in [1..Users -> SUBSET (Workers \X (0..(Candidates - 1)))]
  /\ NULL \notin (1..Users) \X Workers \X (0..(Candidates - 1))

VARIABLES
  main,        (* where main is                                           *)
  user,        (* the line main is at: username, hash and prefix          *)
  working,
  answer,      (* NULL, or the candidate <<k, w, j>> answer points to     *)
  pc, i,       (* pc[w], i[w]: where worker w is, its loop index          *)
  of,          (* of[w]: the user whose prefix w copied                   *)
  hash_count,  (* hash_count[w]: counts over all users                    *)
  result,      (* result[w]: 0 found, 1 cancelled, 2 not found            *)
  summary      (* summary[k]: what was printed for user k                 *)

vars == <<main, user, working, answer, pc, i, of, hash_count, result,
          summary>>

Init ==
  /\ main = "read" /\ user = 0 /\ working = 0
  /\ answer = NULL
  /\ pc = [w \in Workers |-> "start"]
  /\ i = [w \in Workers |-> 0] /\ of = [w \in Workers |-> 0]
  /\ hash_count = [w \in Workers |-> 0]
  /\ result = [w \in Workers |-> 2]
  /\ summary = [k \in 1..Users |-> NULL]

(***************************************************************************)
(* main                                                                    *)
(***************************************************************************)
MutReset == UNCHANGED answer
Reset == answer' = NULL

(* The next line, and the barrier; "start" is waiting at barrier_start. *)
NextUser ==
  /\ main = "read" /\ user < Users
  /\ user' = user + 1
  /\ working' = 1
  /\ Reset
  /\ main' = "start"
  /\ UNCHANGED <<pc, i, of, hash_count, result, summary>>

(* End of input: working = 0 and barrier_start once more *)
NoMoreUsers ==
  /\ main = "read" /\ user = Users
  /\ working' = 0
  /\ main' = "last"
  /\ UNCHANGED <<user, answer, pc, i, of, hash_count, result, summary>>

(* v2_print_summary and free( answer ): the pointer dangles until Reset *)
Summarise ==
  /\ main = "summary"
  /\ summary' = [summary EXCEPT ![user] = [found |-> answer # NULL, by |-> answer]]
  /\ main' = "read"
  /\ UNCHANGED <<user, working, answer, pc, i, of, hash_count, result>>

(***************************************************************************)
(* The barriers: everyone is there, everyone goes on.                      *)
(***************************************************************************)
barrier_start ==
  /\ main \in {"start", "last"} /\ \A w \in Workers : pc[w] = "start"
  /\ main' = IF main = "start" THEN "end" ELSE "join"
  /\ pc' = [w \in Workers |-> "begin"]
  /\ UNCHANGED <<user, working, answer, i, of, hash_count, result, summary>>

barrier_end ==
  /\ main = "end" /\ \A w \in Workers : pc[w] = "end"
  /\ main' = "summary"
  /\ pc' = [w \in Workers |-> "start"]
  /\ UNCHANGED <<user, working, answer, i, of, hash_count, result, summary>>

(***************************************************************************)
(* The workers                                                             *)
(***************************************************************************)
(* if( working == 0 ) break, else copy prefix *)
Begin(w) ==
  /\ pc[w] = "begin"
  /\ IF working = 0
     THEN /\ pc' = [pc EXCEPT ![w] = "done"]
          /\ UNCHANGED <<i, of, result>>
     ELSE /\ pc' = [pc EXCEPT ![w] = "test"]
          /\ i' = [i EXCEPT ![w] = 0]
          /\ of' = [of EXCEPT ![w] = user]
          /\ result' = [result EXCEPT ![w] = 2]
  /\ UNCHANGED <<main, user, working, answer, hash_count, summary>>

(* The loop condition and if( answer != NULL ) *)
Test(w) ==
  /\ pc[w] = "test"
  /\ pc' = [pc EXCEPT ![w] = IF i[w] < Candidates /\ answer = NULL THEN "hash" ELSE "end"]
  /\ result' = IF i[w] < Candidates /\ answer # NULL THEN [result EXCEPT ![w] = 1]
               ELSE result
  /\ UNCHANGED <<main, user, working, answer, i, of, hash_count, summary>>

(* One candidate; when several workers find one the last write stays. *)
Hash(w) ==
  /\ pc[w] = "hash"
  /\ hash_count' = [hash_count EXCEPT ![w] = @ + 1]
  /\ IF <<w, i[w]>> \in Secret[of[w]]
     THEN /\ answer' = <<of[w], w, i[w]>>
          /\ result' = [result EXCEPT ![w] = 0]
          /\ pc' = [pc EXCEPT ![w] = "end"]
          /\ UNCHANGED i
     ELSE /\ i' = [i EXCEPT ![w] = @ + 1]
          /\ pc' = [pc EXCEPT ![w] = "test"]
          /\ UNCHANGED <<answer, result>>
  /\ UNCHANGED <<main, user, working, of, summary>>

(* pthread_join of all and the clean-up *)
Join ==
  /\ main = "join" /\ \A w \in Workers : pc[w] = "done"
  /\ main' = "done"
  /\ UNCHANGED <<user, working, answer, pc, i, of, hash_count, result, summary>>

Terminated == main = "done" /\ UNCHANGED vars

Main == NextUser \/ NoMoreUsers \/ Summarise \/ barrier_start \/ barrier_end \/ Join
Worker(w) == Begin(w) \/ Test(w) \/ Hash(w)
Next == Main \/ (\E w \in Workers : Worker(w)) \/ Terminated
Spec == Init /\ [][Next]_vars

(***************************************************************************)
(* Properties.                                                             *)
(***************************************************************************)
(* The summary of a user names a password of that very user, found exactly  *)
(* if he has one among the candidates, although answer is shared without a  *)
(* lock and read by main right after the barrier; and a worker that comes   *)
(* to barrier_end worked on main's present line and was cancelled only      *)
(* because another one had found the password (cracker2.c:38-77,110-146).   *)
SummaryCorrect ==
  /\ \A k \in 1..Users : summary[k] # NULL =>
       /\ summary[k].found <=> Secret[k] # {}
       /\ summary[k].found => /\ summary[k].by[1] = k
                              /\ <<summary[k].by[2], summary[k].by[3]>> \in Secret[k]
  /\ \A w \in Workers : pc[w] = "end" =>
       /\ of[w] = user
       /\ result[w] = 1 => \E v \in Workers \ {w} : result[v] = 0
=============================================================================
