----------------------------- MODULE MapReduce -----------------------------
(***************************************************************************)
(* mapreduce/mapreduce.c: the driver that starts a splitter and a mapper   *)
(* per pipe and one reducer, and waits for them.  A process that is forked *)
(* inherits every pipe end its parent has open at that moment and, but for *)
(* the few it closes, keeps them until it exits; a reader sees the end of  *)
(* its input only when nobody holds a write end any more.                  *)
(*                                                                         *)
(* Data are counted in units, of which a pipe holds Capacity.  Splitters,  *)
(* mappers and reducer are other programs, modelled by what they do with   *)
(* standard input and output: a mapper writes a unit for every one it      *)
(* reads.                                                                  *)
(***************************************************************************)
EXTENDS Integers, Sequences, FiniteSetsExt

CONSTANTS
  mapper_count,
  Capacity,     (* units a pipe holds                                      *)
  Share         (* units that splitter i sends, a function on 1..mapper_count *)

(* What the constants stand for; the modules that instantiate this one     *)
(* assume it.                                                              *)
MapReduceAssumption ==
  /\ mapper_count \in Nat \ {0} /\ Capacity \in Nat \ {0}
  /\ Share \in [1..mapper_count -> Nat]

Indexes == 1..mapper_count
Splitter(i) == <<"splitter", i>>
Mapper(i) == <<"mapper", i>>
Reducer == <<"reducer", 0>>
Driver == <<"driver", 0>>
Children == {Splitter(i) : i \in Indexes} \cup {Mapper(i) : i \in Indexes} \cup {Reducer}

(* Pipe i leads to mapper i, pipe 0 to the reducer. *)
Pipes == 0..mapper_count
ReadEnds(ps) == ps \X {"read"}
WriteEnds(ps) == ps \X {"write"}

(* The order in which the driver starts and awaits its children. *)
ChildAt(k) ==
  CASE k <= mapper_count -> Splitter(k)
    [] mapper_count < k /\ k <= 2 * mapper_count -> Mapper(k - mapper_count)
    [] OTHER -> Reducer
Last == 2 * mapper_count + 1

VARIABLES
  driver,    (* forking, waiting, done or failed                           *)
  next,      (* the child to fork or to wait for next                      *)
  ends,      (* per process, the pipe ends it has open                     *)
  life,      (* per child: none, forked, running, dead                     *)
  broken,    (* the children whose exec will fail                          *)
  buffer,    (* per pipe, the units in it                                  *)
  todo,      (* per child, the units it has yet to write                   *)
  output     (* units the reducer has read                                 *)

vars == <<driver, next, ends, life, broken, buffer, todo, output>>

Init ==
  /\ driver = "forking" /\ next = 1
  /\ ends = [p \in Children \cup {Driver} |->
               IF p = Driver THEN ReadEnds(Pipes) \cup WriteEnds(Pipes) ELSE {}]
  /\ life = [c \in Children |-> "none"]
  /\ broken \in SUBSET Children
  /\ buffer = [p \in Pipes |-> 0]
  /\ todo = [c \in Children |-> IF c[1] = "splitter" THEN Share[c[2]] ELSE 0]
  /\ output = 0

(***************************************************************************)
(* The driver.                                                             *)
(***************************************************************************)
(* Mutant: the driver keeps the write ends. *)
MutClosedAfter(c) == {}

(* What the driver closes when it forks child c: after mapper i, and before *)
(* the reducer, a write end.                                                *)
ClosedAfter(c) == IF c[1] = "mapper" THEN WriteEnds({c[2]}) ELSE {}
ClosedBefore(c) == IF c = Reducer THEN WriteEnds({0}) ELSE {}

Fork ==
  /\ driver = "forking"
  /\ LET c == ChildAt(next)
         open == ends[Driver] \ ClosedBefore(c)
     IN /\ ends' = [ends EXCEPT ![c] = open, ![Driver] = open \ ClosedAfter(c)]
        /\ life' = [life EXCEPT ![c] = "forked"]
  /\ driver' = IF next = Last THEN "waiting" ELSE "forking"
  /\ next' = IF next = Last THEN 1 ELSE next + 1
  /\ UNCHANGED <<broken, buffer, todo, output>>

(* A fork that fails ends the driver, which leaves the others alone. *)
ForkFails ==
  /\ driver = "forking"
  /\ driver' = "failed"
  /\ ends' = [ends EXCEPT ![Driver] = {}]
  /\ UNCHANGED <<next, life, broken, buffer, todo, output>>

(* Mutant: the reducer is not waited for. *)
MutAwaited == Last - 1
Awaited == Last

Wait ==
  /\ driver = "waiting"
  /\ life[ChildAt(next)] = "dead"
  /\ next' = next + 1
  /\ driver' = IF next = Awaited THEN "done" ELSE "waiting"
  /\ UNCHANGED <<ends, life, broken, buffer, todo, output>>

(***************************************************************************)
(* The children.                                                           *)
(***************************************************************************)
(* What child c closes before exec; dup2 makes its input or output a second *)
(* name for an end it keeps.                                                *)
Closes(c) ==
  CASE c[1] = "splitter" -> ReadEnds({c[2]})
    [] c[1] = "mapper" -> WriteEnds({c[2]}) \cup ReadEnds({0})
    [] c = Reducer -> {}

Dies(c) ==
  /\ life' = [life EXCEPT ![c] = "dead"]
  /\ ends' = [ends EXCEPT ![c] = {}]

Exec(c) ==
  /\ life[c] = "forked"
  /\ \/ c \in broken /\ Dies(c)
     \/ /\ c \notin broken
        /\ life' = [life EXCEPT ![c] = "running"]
        /\ ends' = [ends EXCEPT ![c] = @ \ Closes(c)]
  /\ UNCHANGED <<driver, next, broken, buffer, todo, output>>

In(c) == IF c = Reducer THEN 0 ELSE c[2]
Out(c) == IF c[1] = "splitter" THEN c[2] ELSE 0
Held(end) == \E p \in DOMAIN ends : end \in ends[p]
AtEnd(c) == \/ c[1] = "splitter"
            \/ buffer[In(c)] = 0 /\ ~Held(<<In(c), "write">>)

(* A write waits for room in the pipe; one that nobody can read is answered *)
(* by SIGPIPE.                                                              *)
Write(c) ==
  /\ life[c] = "running" /\ todo[c] > 0
  /\ \/ /\ Held(<<Out(c), "read">>) /\ buffer[Out(c)] < Capacity
        /\ buffer' = [buffer EXCEPT ![Out(c)] = @ + 1]
        /\ todo' = [todo EXCEPT ![c] = @ - 1]
        /\ UNCHANGED <<life, ends>>
     \/ /\ ~Held(<<Out(c), "read">>)
        /\ Dies(c)
        /\ UNCHANGED <<buffer, todo>>
  /\ UNCHANGED <<driver, next, broken, output>>

Read(c) ==
  /\ life[c] = "running" /\ c[1] # "splitter" /\ todo[c] = 0
  /\ buffer[In(c)] > 0
  /\ buffer' = [buffer EXCEPT ![In(c)] = @ - 1]
  /\ IF c = Reducer THEN output' = output + 1 /\ UNCHANGED todo
     ELSE todo' = [todo EXCEPT ![c] = 1] /\ UNCHANGED output
  /\ UNCHANGED <<driver, next, ends, life, broken>>

Finish(c) ==
  /\ life[c] = "running" /\ todo[c] = 0 /\ AtEnd(c)
  /\ Dies(c)
  /\ UNCHANGED <<driver, next, broken, buffer, todo, output>>

Child(c) == Exec(c) \/ Write(c) \/ Read(c) \/ Finish(c)

Driving == Fork \/ Wait
Next == Driving \/ ForkFails \/ \E c \in Children : Child(c)

(* Every process is scheduled. *)
Fairness == WF_vars(Driving) /\ \A c \in Children : WF_vars(Child(c))

Spec == Init /\ [][Next]_vars /\ Fairness

(***************************************************************************)
(* Properties.                                                             *)
(***************************************************************************)
(* The units that the programs that were found pass on to the reducer. *)
Sent == MapThenSumSet(LAMBDA i : IF broken \cap {Splitter(i), Mapper(i)} = {}
                                 THEN Share[i] ELSE 0, Indexes)

(* A reader that could not be started and whose input does not fit into its *)
(* pipe: the driver keeps the read ends, so its writers wait for ever.      *)
Clogged ==
  \/ \E i \in Indexes : Mapper(i) \in broken /\ Splitter(i) \notin broken
                        /\ Share[i] > Capacity
  \/ Reducer \in broken /\ Sent > Capacity

(* The driver ends: although splitters and mappers inherit each other's     *)
(* write ends, every reader sees the end of its input at last, the ends     *)
(* being given up in the order of the mappers, and the waits in the order   *)
(* of the forks hold nobody up (mapreduce.c:84-107,131-144).  The exception *)
(* is a mapper or reducer that exec did not find.                           *)
DriverEnded == driver \in {"done", "failed"} \/ Clogged

(* When the driver is done, the reducer has read, once each, the units of   *)
(* the splitters whose mapper and reducer were found: no end of input came  *)
(* too early.  And the exception of DriverEnded is no looser than it needs. *)
OutputWhole == driver = "done" => ~Clogged /\ output = (IF Reducer \in broken THEN 0 ELSE Sent)
=============================================================================
