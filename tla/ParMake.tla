------------------------------ MODULE ParMake ------------------------------
(***************************************************************************)
(* parallel_make/parmake.c, from the end of the cycle check on: worker     *)
(* threads scan topo_order under mtx_1 for a target they can act on, run   *)
(* its commands without any lock, and publish the result in rule->state    *)
(* under mtx_0.  A worker that finds nothing to do sleeps on cv_1 with     *)
(* mtx_1, but cv_1 is broadcast under mtx_0.                               *)
(*                                                                         *)
(* Sections under mtx_0 never block and are one step.  Files are their     *)
(* modification times, 0 when there is no such file.                       *)
(***************************************************************************)
EXTENDS Integers, Sequences, FiniteSets, SequencesExt

CONSTANTS
  Workers,      (* num_threads threads                                    *)
  NULL,
  Targets,      (* the vertices of dependency_graph other than ""         *)
  Deps,         (* Deps[t]: graph_neighbors of t, in the order returned   *)
  Creates,      (* the targets whose commands write a file of that name   *)
  Files,        (* the file systems parmake may start in: times by target *)
  MayFail       (* the targets whose commands may exit with an error      *)

ASSUME ParMakeAssumption ==
  /\ NULL \notin Workers \cup Targets /\ IsFiniteSet(Targets)
  /\ Deps \in [Targets -> Seq(Targets)]
  /\ Creates \subseteq Targets /\ MayFail \subseteq Targets
  /\ Files \subseteq [Targets -> Nat]

VARIABLES
  todo,     (* topo_order                                                 *)
  mtx_1,    (* the worker that holds mtx_1, or NULL                       *)
  asleep,   (* the workers blocked on cv_1                                *)
  pc,       (* where a worker is                                          *)
  i,        (* i[w]: its loop index                                       *)
  num,      (* num[w]: the size of topo_order when its scan began         *)
  job,      (* job[w]: the target it acts on                              *)
  sub,      (* sub[w]: the number of sub_rule in get_target_status        *)
  state,    (* state[t]: rule->state                                      *)
  mtime,    (* mtime[t]: the file system                                  *)
  now,      (* the time                                                   *)
  fate,     (* ghost: fate[t]: what really became of t                    *)
  seen      (* ghost: seen[w]: the dependencies w looked at, from the first *)

vars == <<todo, mtx_1, asleep, pc, i, num, job, sub, state, mtime, now, fate, seen>>

(* set_elements returns the targets in no particular order. *)
Init ==
  /\ todo \in SetToSeqs(Targets)
  /\ mtx_1 = NULL /\ asleep = {}
  /\ pc = [w \in Workers |-> "loop"]
  /\ i = [w \in Workers |-> 1] /\ num = [w \in Workers |-> 0]
  /\ job = [w \in Workers |-> NULL] /\ sub = [w \in Workers |-> 1]
  /\ state = [t \in Targets |-> 0]
  /\ mtime \in Files
  /\ now = 1 + Cardinality(Targets)
  /\ fate = [t \in Targets |-> "waiting"]
  /\ seen = [w \in Workers |-> 0]

(***************************************************************************)
(* get_target_status                                                       *)
(***************************************************************************)
Exists(t) == mtime[t] > 0

(* Mutant: a newer dependency is no reason to rebuild. *)
MutFileStatus(t) == IF \E k \in 1..Len(Deps[t]) : ~Exists(Deps[t][k]) THEN 1 ELSE 2

(* A target with a file: rebuild (1) if a dependency has no file or a       *)
(* newer one, else up to date (2).  The states of the dependencies are not *)
(* looked at.                                                               *)
FileStatus(t) ==
  IF \E k \in 1..Len(Deps[t]) :
       ~Exists(Deps[t][k]) \/ mtime[t] < mtime[Deps[t][k]]
  THEN 1 ELSE 2

(* Mutant: the loop over the dependencies starts at the second one. *)
MutUnfinished(t) == {k \in 2..Len(Deps[t]) : state[Deps[t][k]] # 1}
Unfinished(t) == {k \in 1..Len(Deps[t]) : state[Deps[t][k]] # 1}

(* The status when it is known without rereading a dependency's state. *)
Status(t) ==
  CASE state[t] # 0 -> 3
    [] Deps[t] = <<>> -> IF Exists(t) THEN 2 ELSE 1
    [] Deps[t] # <<>> /\ Exists(t) -> FileStatus(t)
    [] OTHER -> 1

Rereads(t) ==
  state[t] = 0 /\ Deps[t] # <<>> /\ ~Exists(t) /\ Unfinished(t) # {}

(***************************************************************************)
(* worker_function                                                         *)
(***************************************************************************)
(* pthread_mutex_lock( &mtx_1 ), and what follows when nothing is left *)
Lock(w) ==
  /\ pc[w] = "loop" /\ mtx_1 = NULL
  /\ IF todo = <<>>
     THEN /\ pc' = [pc EXCEPT ![w] = "exited"]
          /\ UNCHANGED <<mtx_1, i, num>>
     ELSE /\ mtx_1' = w
          /\ i' = [i EXCEPT ![w] = 1]
          /\ num' = [num EXCEPT ![w] = Len(todo)]
          /\ pc' = [pc EXCEPT ![w] = "scan"]
  /\ UNCHANGED <<todo, asleep, job, sub, state, mtime, now, fate, seen>>

(* Mutant: the target stays in topo_order. *)
MutErase(w, next) ==
  /\ job' = [job EXCEPT ![w] = todo[i[w]]]
  /\ mtx_1' = NULL
  /\ pc' = [pc EXCEPT ![w] = next]
  /\ UNCHANGED <<todo, asleep, i, num>>

(* vector_erase and pthread_mutex_unlock( &mtx_1 ) *)
Erase(w, next) ==
  /\ job' = [job EXCEPT ![w] = todo[i[w]]]
  /\ todo' = RemoveAt(todo, i[w])
  /\ mtx_1' = NULL
  /\ pc' = [pc EXCEPT ![w] = next]
  /\ UNCHANGED <<asleep, i, num>>

(* Nothing to do for this target: the next one, or pthread_cond_wait *)
Idle(w) ==
  /\ IF i[w] = num[w]
     THEN /\ asleep' = asleep \cup {w}
          /\ mtx_1' = NULL
          /\ pc' = [pc EXCEPT ![w] = "asleep"]
          /\ UNCHANGED i
     ELSE /\ i' = [i EXCEPT ![w] = @ + 1]
          /\ pc' = [pc EXCEPT ![w] = "scan"]
          /\ UNCHANGED <<mtx_1, asleep>>
  /\ UNCHANGED <<todo, num, job>>

(* The branches on the status; 3 publishes nothing. *)
Act(w, status) ==
  CASE status = 1 -> Erase(w, "run")
    [] status = 2 -> Erase(w, "halted")
    [] status = 3 -> Erase(w, "loop")
    [] status = -1 -> Erase(w, "dropped")
    [] OTHER -> Idle(w)

(* One iteration of the for loop whose status is known at once, by the file *)
(* of the target or by the states of all its dependencies ...               *)
Scan(w) ==
  /\ pc[w] = "scan" /\ ~Rereads(todo[i[w]])
  /\ Act(w, Status(todo[i[w]]))
  /\ seen' = [seen EXCEPT ![w] = IF Exists(todo[i[w]]) THEN 0 ELSE Len(Deps[todo[i[w]]])]
  /\ UNCHANGED <<sub, state, mtime, now, fate>>

(* ... or that meets a dependency that is not done and releases mtx_0 ... *)
Meet(w) ==
  /\ pc[w] = "scan" /\ Rereads(todo[i[w]])
  /\ \E k \in Unfinished(todo[i[w]]) :
       /\ \A l \in Unfinished(todo[i[w]]) : k <= l
       /\ sub' = [sub EXCEPT ![w] = k]
  /\ pc' = [pc EXCEPT ![w] = "reread"]
  /\ UNCHANGED <<todo, mtx_1, asleep, i, num, job, state, mtime, now, fate, seen>>

(* ... and returns sub_rule->state as it is by then. *)
Reread(w) ==
  /\ pc[w] = "reread"
  /\ Act(w, state[Deps[todo[i[w]]][sub[w]]])
  /\ seen' = [seen EXCEPT ![w] = sub[w]]
  /\ UNCHANGED <<sub, state, mtime, now, fate>>

(* system(): a failing command stops the rule. *)
Run(w) ==
  /\ pc[w] = "run"
  /\ \/ /\ now' = now + 1
        /\ mtime' = IF job[w] \in Creates THEN [mtime EXCEPT ![job[w]] = now']
                    ELSE mtime
        /\ pc' = [pc EXCEPT ![w] = "built"]
     \/ /\ job[w] \in MayFail
        /\ pc' = [pc EXCEPT ![w] = "failed"]
        /\ UNCHANGED <<now, mtime>>
  /\ UNCHANGED <<todo, mtx_1, asleep, i, num, job, sub, state, fate, seen>>

(* Mutant: no broadcast. *)
MutPublish(w, s) ==
  /\ state' = [state EXCEPT ![job[w]] = s]
  /\ pc' = [pc EXCEPT ![w] = "loop"]
  /\ UNCHANGED asleep

(* rule->state and the broadcast, under mtx_0 *)
Publish(w, s) ==
  /\ state' = [state EXCEPT ![job[w]] = s]
  /\ asleep' = {}
  /\ pc' = [pc EXCEPT ![w] = "loop"]

(* After the commands, -1 or 1.  A rule whose status was -1 or 2 gets 1:    *)
(* the test is on its own state, and that is 0.                             *)
Report(w) ==
  /\ pc[w] \in {"built", "failed", "halted", "dropped"}
  /\ Publish(w, CASE pc[w] = "built" -> 1
                  [] pc[w] = "failed" -> -1
                  [] OTHER -> IF state[job[w]] # -1 THEN 1 ELSE -1)
  /\ fate' = [fate EXCEPT ![job[w]] = pc[w]]
  /\ UNCHANGED <<todo, mtx_1, i, num, job, sub, mtime, now, seen>>

(* pthread_cond_wait returns with mtx_1, which is unlocked at once. *)
Wake(w) ==
  /\ pc[w] = "asleep" /\ w \notin asleep /\ mtx_1 = NULL
  /\ pc' = [pc EXCEPT ![w] = "loop"]
  /\ UNCHANGED <<todo, mtx_1, asleep, i, num, job, sub, state, mtime, now, fate, seen>>

Joined == \A w \in Workers : pc[w] = "exited"
Terminated == Joined /\ UNCHANGED vars

Step(w) == Scan(w) \/ Meet(w) \/ Reread(w) \/ Run(w) \/ Report(w)
Next == (\E w \in Workers : Lock(w) \/ Step(w) \/ Wake(w)) \/ Terminated

Spec == Init /\ [][Next]_vars

(* Workers are scheduled, commands end, and a worker that keeps asking for  *)
(* mtx_1 gets it.  No wake-up without a broadcast is assumed.               *)
FairSpec ==
  /\ Spec
  /\ \A w \in Workers : WF_vars(Step(w)) /\ SF_vars(Lock(w) \/ Wake(w))

(***************************************************************************)
(* Properties.                                                             *)
(***************************************************************************)
(* Every variable of the model keeps its type. *)
TypeOK ==
  /\ todo \in Seq(Targets) /\ mtx_1 \in Workers \cup {NULL}
  /\ asleep \subseteq Workers
  /\ pc \in [Workers -> {"loop", "scan", "reread", "run", "built", "failed",
                         "halted", "dropped", "asleep", "exited"}]
  /\ i \in [Workers -> Nat] /\ num \in [Workers -> Nat]
  /\ job \in [Workers -> Targets \cup {NULL}]
  /\ sub \in [Workers -> Nat] /\ seen \in [Workers -> Nat]
  /\ state \in [Targets -> {-1, 0, 1}]
  /\ mtime \in [Targets -> Nat] /\ now \in Nat
  /\ fate \in [Targets -> {"waiting", "built", "failed", "halted", "dropped"}]

Acting(w) == pc[w] \in {"run", "built", "failed", "halted", "dropped"}

(* Every target is in topo_order, or with exactly one worker, or settled:   *)
(* no two workers run the same commands, and none is forgotten.             *)
OneOwner ==
  \A t \in Targets :
    Cardinality({k \in 1..Len(todo) : todo[k] = t})
      + Cardinality({w \in Workers : Acting(w) /\ job[w] = t})
      + (IF fate[t] = "waiting" THEN 0 ELSE 1) = 1

(* A rule without dependencies whose file is there has nothing to do. *)
Source(t) == Deps[t] = <<>> /\ Exists(t)

(* Commands run only when every dependency the worker looked at has been    *)
(* settled, and did not fail: it was built, or is up to date, or was        *)
(* dropped, which counts as done.  It looks at all of them, but at none     *)
(* when the target's file is there, and at those up to the first that was   *)
(* not done when that one has been done since.                              *)
RunsAfterDeps ==
  \A w \in Workers : pc[w] = "run" =>
    \A k \in 1..seen[w] : fate[Deps[job[w]][k]] \in {"built", "halted", "dropped"}

(* What get_target_status says of status 1: "Passed: All dependencies are   *)
(* satisfied".  It does not hold.                                           *)
AllSatisfied ==
  \A w \in Workers : pc[w] = "run" =>
    \A k \in 1..Len(Deps[job[w]]) :
      \/ fate[Deps[job[w]][k]] \in {"built", "halted"}
      \/ Source(Deps[job[w]][k])

(* A target that is left alone is up to date when parmake returns.          *)
(* get_target_status calls status 2 "Halted: File already up-to-date".      *)
HaltedIsUpToDate ==
  Joined => \A t \in Targets : fate[t] = "halted" =>
              \A k \in 1..Len(Deps[t]) : mtime[Deps[t][k]] <= mtime[t]

(* The workers all come home with every target settled: sleeping with mtx_1 *)
(* on a condition that is broadcast under mtx_0 can lose a wake-up, but     *)
(* whoever changed a state scans again himself.                             *)
AllSettled == <>(Joined /\ \A t \in Targets : fate[t] # "waiting")
=============================================================================
