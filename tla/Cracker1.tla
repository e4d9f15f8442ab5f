------------------------------ MODULE Cracker1 ------------------------------
(***************************************************************************)
(* password_cracker/cracker1.c: main fills the task queue, ends it with    *)
(* NULL and joins the workers; a worker that pulls NULL pushes it back for *)
(* the others and leaves.  The queue is the one of critical_concurrency,   *)
(* taken as the first-in first-out channel it implements (module Queue),   *)
(* without a maximum.  The trial of the candidates is one step.            *)
(***************************************************************************)
EXTENDS Integers, Sequences, FiniteSets, SequencesExt

CONSTANTS
  Workers,
  NULL,
  Tasks,      (* the lines of stdin, in order                             *)
  Crackable,  (* the tasks one of whose candidates has the right hash     *)
  Known       (* the tasks whose prefix leaves no character unknown       *)

(* What the constants stand for; the modules that instantiate this one     *)
(* assume it.  start is given at least one thread.                         *)
Cracker1Assumption ==
  /\ Workers # {}
  /\ Tasks \in Seq(ToSet(Tasks)) /\ IsInjective(Tasks)
  /\ NULL \notin ToSet(Tasks) \cup {0, 1}
  /\ Crackable \subseteq ToSet(Tasks) /\ Known \subseteq ToSet(Tasks)
  /\ Crackable \cap Known = {}

VARIABLES
  queue,      (* task_queue                                               *)
  main,       (* where main is                                            *)
  num_tasks,
  pc, task,   (* pc[w], task[w]: where worker w is and with which task    *)
  success,    (* the counter under lock                                   *)
  result,     (* ghost: result[t] as printed, or NULL                     *)
  summary     (* the numbers given to v1_print_summary, or NULL           *)

vars == <<queue, main, num_tasks, pc, task, success, result, summary>>

Init ==
  /\ queue = <<>> /\ main = "read" /\ num_tasks = 0
  /\ pc = [w \in Workers |-> "none"]
  /\ task = [w \in Workers |-> NULL]
  /\ success = 0
  /\ result = [t \in ToSet(Tasks) |-> NULL]
  /\ summary = NULL

(* fgets and queue_push *)
Read ==
  /\ main = "read" /\ num_tasks < Len(Tasks)
  /\ num_tasks' = num_tasks + 1
  /\ queue' = Append(queue, Tasks[num_tasks'])
  /\ UNCHANGED <<main, pc, task, success, result, summary>>

(* queue_push( task_queue, NULL ) and the creation of the workers *)
Launch ==
  /\ main = "read" /\ num_tasks = Len(Tasks)
  /\ queue' = Append(queue, NULL)
  /\ main' = "join"
  /\ pc' = [w \in Workers |-> "pull"]
  /\ UNCHANGED <<num_tasks, task, success, result, summary>>

(* queue_pull, which blocks while the queue is empty *)
Pull(w) ==
  /\ pc[w] = "pull" /\ queue # <<>>
  /\ task' = [task EXCEPT ![w] = Head(queue)]
  /\ queue' = Tail(queue)
  /\ pc' = [pc EXCEPT ![w] = IF Head(queue) = NULL THEN "leave" ELSE "crack"]
  /\ UNCHANGED <<main, num_tasks, success, result, summary>>

(* Nothing to try, or the loop over the candidates up to the lock *)
Crack(w) ==
  /\ pc[w] = "crack"
  /\ pc' = [pc EXCEPT ![w] = IF task[w] \in Crackable THEN "count" ELSE "report"]
  /\ UNCHANGED <<queue, main, num_tasks, task, success, result, summary>>

(* success ++ under lock *)
Count(w) ==
  /\ pc[w] = "count"
  /\ success' = success + 1
  /\ pc' = [pc EXCEPT ![w] = "report"]
  /\ UNCHANGED <<queue, main, num_tasks, task, result, summary>>

(* v1_print_thread_result: 0 for found, 1 for not found *)
Report(w) ==
  /\ pc[w] = "report"
  /\ result' = [result EXCEPT ![task[w]] =
                  IF task[w] \in Crackable \cup Known THEN 0 ELSE 1]
  /\ pc' = [pc EXCEPT ![w] = "pull"]
  /\ UNCHANGED <<queue, main, num_tasks, task, success, summary>>

(* Mutant: the sentinel is not handed on. *)
MutLeave(w) ==
  /\ pc[w] = "leave"
  /\ pc' = [pc EXCEPT ![w] = "done"]
  /\ UNCHANGED <<queue, main, num_tasks, task, success, result, summary>>

(* queue_push( task_queue, NULL ) for the next worker *)
Leave(w) ==
  /\ pc[w] = "leave"
  /\ queue' = Append(queue, NULL)
  /\ pc' = [pc EXCEPT ![w] = "done"]
  /\ UNCHANGED <<main, num_tasks, task, success, result, summary>>

(* pthread_join of all, v1_print_summary, queue_destroy *)
Finish ==
  /\ main = "join" /\ \A w \in Workers : pc[w] = "done"
  /\ summary' = [recovered |-> success, failed |-> num_tasks - success]
  /\ queue' = <<>>
  /\ main' = "done"
  /\ UNCHANGED <<num_tasks, pc, task, success, result>>

Terminated == main = "done" /\ UNCHANGED vars

Main == Read \/ Launch \/ Finish
Worker(w) == Pull(w) \/ Crack(w) \/ Count(w) \/ Report(w) \/ Leave(w)
Next == Main \/ (\E w \in Workers : Worker(w)) \/ Terminated
Spec == Init /\ [][Next]_vars

(***************************************************************************)
(* Properties.                                                             *)
(***************************************************************************)
(* Every line is in one place: not read yet, queued, with one worker, or    *)
(* reported; one sentinel circulates once main has pushed it, so no worker  *)
(* leaves while another still could miss a task; and the summary counts as  *)
(* recovered the users that a search was reported to have found.  The users *)
(* in Known are reported found without one and counted as failed.           *)
NothingLost ==
  /\ \A n \in 1..num_tasks :
       Cardinality({k \in 1..Len(queue) : queue[k] = Tasks[n]})
         + Cardinality({w \in Workers : /\ pc[w] \in {"crack", "count", "report"}
                                        /\ task[w] = Tasks[n]})
         + (IF result[Tasks[n]] = NULL THEN 0 ELSE 1) = 1
  /\ main = "join" =>
       Cardinality({k \in 1..Len(queue) : queue[k] = NULL})
         + Cardinality({w \in Workers : pc[w] = "leave"}) = 1
  /\ summary # NULL =>
       /\ \A n \in 1..Len(Tasks) : result[Tasks[n]] # NULL
       /\ summary.recovered = Cardinality({t \in ToSet(Tasks) \ Known : result[t] = 0})
=============================================================================
