----------------------------- MODULE MCPrograms -----------------------------
(***************************************************************************)
(* Six programs of several threads, processes or jobs: the scheduler       *)
(* library, the two password crackers, the shell, the map-reduce driver    *)
(* and the chat client.  A behaviour runs one of them, chosen in the       *)
(* initial state; the others rest in one initial state of theirs.          *)
(***************************************************************************)
EXTENDS Scheduler, Crackers, Processes

CONSTANTS j1, j2, j3, w1, w2, w3, u1, u2, u3, u4

VARIABLES
  program,     (* the one that runs                                        *)
  (* ChatClient *)
  main, writer, reader, cancelled, joined, serverSocket, server, inbox, typed,
  messages, interrupted

client == <<main, writer, reader, cancelled, joined, serverSocket, server, inbox,
            typed, messages, interrupted>>
allvars == <<program, vars, cracker1, cracker2, shell, mapreduce, client>>

(***************************************************************************)
(* The instances.                                                          *)
(***************************************************************************)
(* Jobs of equal and different length and priority. *)
Lengths == (j1 :> 2) @@ (j2 :> 2) @@ (j3 :> 1)
Priorities == (j1 :> 1) @@ (j2 :> 0) @@ (j3 :> 1)

(* cracker1: two users with a password to find, one whose password is given *)
(* whole, and one without.                                                  *)
StdinLines == <<u1, u2, u3, u4>>

(* cracker2: user 1 has two passwords with his hash, user 2 none, user 3 one. *)
Secrets == <<{<<w1, 1>>, <<w2, 0>>}, {}, {<<w3, 1>>}>>

(* The shell: all kinds of commands; every operator; two pids for the       *)
(* children, so that pids are used again.                                   *)
Line(c, o, d, b) == [op |-> o, first |-> c, second |-> d, bg |-> b]
Simple(c, b) == Line(c, "none", NULL, b)
External == <<"external">>
SomeLines ==
  {Simple(<<n>>, FALSE) : n \in {"!history", "exit", "#n", "!", "ps"}}
  \cup {Simple(External, b) : b \in BOOLEAN}
  \cup {Simple(<<n, p>>, FALSE) : n \in {"kill", "stop", "cont"}, p \in Pids}
  \cup {Line(<<"cd">>, "or", External, TRUE), Line(External, "and", <<"cd">>, FALSE),
        Line(<<"invalid">>, "then", External, TRUE)}

(* Two mappers, the second with more input than its pipe holds. *)
Shares == <<1, 2>>

CC == INSTANCE ChatClient
        WITH lines <- typed, MaxLines <- 3, MaxMessages <- 2

ASSUME ClientAssumption == CC!ChatClientAssumption

(***************************************************************************)
(* The choice.                                                             *)
(***************************************************************************)
Runs(p) ==
  /\ program = p
  /\ UNCHANGED program
  /\ p # "scheduler" => UNCHANGED vars
  /\ p # "cracker1" => UNCHANGED cracker1
  /\ p # "cracker2" => UNCHANGED cracker2
  /\ p # "shell" => UNCHANGED shell
  /\ p # "mapreduce" => UNCHANGED mapreduce
  /\ p # "client" => UNCHANGED client

ProgramInit ==
  /\ program \in {"scheduler", "cracker1", "cracker2", "shell", "mapreduce", "client"}
  /\ Init /\ C1!Init /\ C2!Init /\ Sh!Init /\ Mr!Init /\ CC!Init
  /\ program # "shell" => leader
  /\ program # "mapreduce" => broken = {}

ProgramNext ==
  \/ Runs("scheduler") /\ Next
  \/ Runs("cracker1") /\ C1!Next
  \/ Runs("cracker2") /\ C2!Next
  \/ Runs("shell") /\ Sh!Next
  \/ Runs("mapreduce") /\ Mr!Next
  \/ Runs("client") /\ CC!Next

(* The k-th thread or process besides the main one; programs exclude each   *)
(* other, so fairness to the disjunction is fairness to each.               *)
Actors == 1..5
WorkerOf == <<w1, w2, w3>>
Actor(k) ==
  \/ k \in 1..3 /\ Runs("cracker2") /\ C2!Worker(WorkerOf[k])
  \/ k \in Pids /\ Runs("shell") /\ Sh!Program(k)
  \/ k = 3 /\ Runs("shell") /\ Sh!TakeSignal
  \/ k = 4 /\ Runs("shell") /\ Sh!signal_handler
  \/ Runs("mapreduce") /\ Mr!Child(Mr!ChildAt(k))
  \/ k = 1 /\ Runs("client") /\ CC!Alive /\ CC!Handler
  \/ k = 2 /\ Runs("client") /\ CC!Alive /\ CC!write_to_server
  \/ k = 3 /\ Runs("client") /\ CC!Alive /\ CC!read_from_server

(* Threads and processes are scheduled, commands that the shell starts end, *)
(* and a worker of cracker1 that finds the queue empty is woken by the push *)
(* that follows (Queue's NoStrandedWaiter and Termination).  Nobody has to  *)
(* create jobs, type a line, or send a message or a signal.                 *)
ProgramSpec ==
  /\ ProgramInit /\ [][ProgramNext]_allvars
  /\ WF_allvars(\/ Runs("scheduler") /\ Serve
                \/ Runs("cracker1") /\ C1!Main
                \/ Runs("cracker2") /\ C2!Main
                \/ Runs("shell") /\ Sh!Command
                \/ Runs("mapreduce") /\ Mr!Driving
                \/ Runs("client") /\ CC!Alive /\ CC!Main)
  /\ \A k \in Actors : WF_allvars(Actor(k))
  /\ \A w \in Workers : SF_allvars(Runs("cracker1") /\ C1!Worker(w))

(***************************************************************************)
(* Properties.                                                             *)
(***************************************************************************)
Settled ==
  \/ program = "scheduler" /\ (AllFinished \/ phase = "dangling")
  \/ program = "cracker1" /\ main1 = "done"
  \/ program = "cracker2" /\ main2 = "done"
  \/ program = "shell" /\ Sh!CommandEnded
  \/ program = "mapreduce" /\ Mr!DriverEnded
  \/ program = "client" /\ CC!ClientEnded

(* Again and again nothing that was begun is left: every job that arrives   *)
(* is finished, unless one was lost in the queue; one sentinel, handed from *)
(* worker to worker, ends cracker1 and its joins; after the last line every *)
(* worker of cracker2 leaves through barrier_start; a command of the shell  *)
(* ends although the handler may reap its child first; the map-reduce       *)
(* driver ends although its children inherit each other's pipes; the chat   *)
(* client ends after a SIGINT and its reading thread when the server has    *)
(* gone.                                                                    *)
EverythingEnds == []<>Settled
=============================================================================
