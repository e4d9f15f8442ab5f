------------------------------- MODULE Shell -------------------------------
(***************************************************************************)
(* shell/shell.c: the shell's main thread, its SIGCHLD handler, which may  *)
(* interrupt the main thread between any two of its steps, and the child   *)
(* processes, with pids that the system uses again.                        *)
(*                                                                         *)
(* A line is a command or two joined by &&, || or ; (here "and", "or" and  *)
(* "then"), perhaps to be run in the background.  Commands are told apart  *)
(* by what classify makes of them; their text, the redirections and what   *)
(* is printed are left out.                                                *)
(***************************************************************************)
EXTENDS Integers, Sequences, SequencesExt

CONSTANTS
  Pids,      (* pids that the system gives to the children                *)
  Self,      (* pid of the shell                                          *)
  Lines,     (* the lines the user may type: records [op, first, second,  *)
             (* bg] of commands                                           *)
  MaxLines,  (* bound on the lines of a session                           *)
  None       (* no command, no pid                                        *)

(* The commands of the lines; those that signal name a child of the shell. *)
Commands == {l.first : l \in Lines} \cup {l.second : l \in {k \in Lines : k.op # "none"}}

(* What the constants stand for; the modules that instantiate this one     *)
(* assume it.                                                              *)
ShellAssumption ==
  /\ Pids \subseteq Nat \ {0} /\ Self \in Nat \ (Pids \cup {0})
  /\ \A l \in Lines : l.op \in {"none", "and", "or", "then"} /\ l.bg \in BOOLEAN
  /\ \A c \in Commands : c[1] \in {"kill", "stop", "cont"} => c[2] \in Pids

VARIABLES
  (* The main thread. *)
  pc,         (* prompt, classify, forked, listed, waiting, reaped, exited *)
  cmd,        (* the command that is executed                              *)
  rest,       (* [op, second]: what remains of the line                    *)
  bg,         (* the global of that name                                   *)
  nested,     (* cmd was taken from the history by #n, ! or !prefix        *)
  child,      (* the child just forked                                     *)
  lines,      (* lines read so far                                         *)
  processes,  (* the table: a sequence of <<pid, status>>                  *)
  cmd_his,    (* the history                                               *)
  saved,      (* the history file; None until it is written                *)
  handling,   (* inside signal_handler                                     *)
  (* The system. *)
  state,      (* of each child: free, running, stopped, zombie             *)
  inbg,       (* the child's copy of bg                                    *)
  own,        (* it has its own process group                              *)
  code,       (* how a zombie ended: ok, fail, signal                      *)
  sigchld,    (* SIGCHLD is pending                                        *)
  leader,     (* the shell leads its process group                         *)
  shot,       (* history: the pids shell_exit sent SIGKILL to              *)
  stale       (* ... the pids of children that were reaped with their      *)
              (* entry left, or made after that, to say RUNNING            *)

main == <<pc, cmd, rest, bg, nested, child, lines>>
system == <<state, inbg, own, code, sigchld, leader>>
history == <<shot, stale>>
vars == <<main, processes, cmd_his, saved, handling, system, history>>

Init ==
  /\ pc = "prompt" /\ cmd = None /\ rest = <<"none", None>>
  /\ bg = FALSE /\ nested = FALSE /\ child = None /\ lines = 0
  /\ processes = <<<<Self, "RUNNING">>>>
  /\ cmd_his = <<>> /\ saved = None /\ handling = FALSE
  /\ state = [p \in Pids |-> "free"]
  /\ inbg = [p \in Pids |-> FALSE]
  /\ own = [p \in Pids |-> FALSE]
  /\ code = [p \in Pids |-> "ok"]
  /\ sigchld = FALSE /\ leader \in BOOLEAN /\ shot = {} /\ stale = {}

Alive(p) == state[p] \in {"running", "stopped"}

(***************************************************************************)
(* The table of processes.                                                 *)
(***************************************************************************)
Entry(t, p) == SelectInSeq(t, LAMBDA e : e[1] = p)

(* Mutant: the entry of a process that had the pid before is not looked for. *)
MutAddProcess(t, p) == Append(t, <<p, "RUNNING">>)

add_process(t, p) ==
  IF Entry(t, p) # 0 THEN [t EXCEPT ![Entry(t, p)] = <<p, "RUNNING">>]
  ELSE Append(t, <<p, "RUNNING">>)

set_process_status(t, p, status) ==
  IF Entry(t, p) # 0 THEN [t EXCEPT ![Entry(t, p)] = <<p, status>>] ELSE t

(***************************************************************************)
(* The system: children, signals and waitpid.                              *)
(***************************************************************************)
(* Which pid has which process group; -1 is getpgid's error. *)
getpgid(p) ==
  CASE p = Self -> IF leader THEN Self ELSE 0
    [] p \in Pids /\ state[p] # "free" -> IF own[p] THEN p ELSE IF leader THEN Self ELSE 0
    [] OTHER -> -1

(* The child of a background command moves to its own group before exec. *)
setpgid(p) ==
  /\ state[p] = "running" /\ inbg[p] /\ ~own[p]
  /\ own' = [own EXCEPT ![p] = TRUE]
  /\ UNCHANGED <<main, processes, cmd_his, saved, handling, state, inbg, code,
                 sigchld, leader, history>>

(* A program ends, well or badly; a command that exec does not find ends    *)
(* with status 0.                                                           *)
Ends(p, c) ==
  /\ state[p] = "running" /\ (inbg[p] => own[p])
  /\ state' = [state EXCEPT ![p] = "zombie"]
  /\ code' = [code EXCEPT ![p] = c]
  /\ sigchld' = TRUE
  /\ UNCHANGED <<main, processes, cmd_his, saved, handling, inbg, own, leader, history>>

Reaped(p) ==
  /\ state' = [state EXCEPT ![p] = "free"]
  /\ own' = [own EXCEPT ![p] = FALSE]
  /\ inbg' = [inbg EXCEPT ![p] = FALSE]
  /\ code' = [code EXCEPT ![p] = "ok"]

(* SIGCHLD comes in between two steps of the main thread.  A main thread    *)
(* that is blocked in waitpid looks at its own child before it takes the    *)
(* signal, and is restarted afterwards.                                     *)
TakeSignal ==
  /\ sigchld /\ ~handling /\ pc # "exited"
  /\ pc = "waiting" => state[child] # "zombie"
  /\ sigchld' = FALSE
  /\ handling' = TRUE
  /\ UNCHANGED <<main, processes, cmd_his, saved, state, inbg, own, code, leader, history>>

(* One waitpid(-1, WNOHANG), whatever the number of children that ended; it *)
(* returns 0, and no entry changes, when none of them has.                  *)
signal_handler ==
  /\ handling
  /\ handling' = FALSE
  /\ \/ \E p \in Pids :
          /\ state[p] = "zombie"
          /\ Reaped(p)
          /\ processes' = set_process_status(processes, p, "KILLED")
     \/ /\ \A p \in Pids : state[p] # "zombie"
        /\ UNCHANGED <<processes, state, inbg, own, code>>
  /\ UNCHANGED <<main, cmd_his, saved, sigchld, leader, history>>

(***************************************************************************)
(* The main thread.                                                        *)
(***************************************************************************)
At(l) == pc = l /\ ~handling

(* Mutant: the status of an entry is not looked at. *)
MutDoomed(t) == {t[i][1] : i \in {j \in DOMAIN t : getpgid(t[j][1]) # t[j][1]}}

(* shell_exit sends SIGKILL to every entry not marked KILLED whose group is *)
(* not its own, the shell itself being the first; one that does not lead    *)
(* its group dies of it and goes no further.                                *)
Doomed(t) == {t[i][1] : i \in {j \in DOMAIN t : t[j][2] # "KILLED"
                                              /\ getpgid(t[j][1]) # t[j][1]}}

shell_exit(t) ==
  LET victims == IF Self \in Doomed(t) THEN {}
                 ELSE {p \in Pids : p \in Doomed(t) /\ Alive(p)}
  IN /\ pc' = "exited"
     /\ state' = [p \in Pids |-> IF p \in victims THEN "zombie" ELSE state[p]]
     /\ saved' = IF Self \in Doomed(t) THEN None ELSE cmd_his
     /\ shot' = IF Self \in Doomed(t) THEN {} ELSE Doomed(t)
     /\ processes' = t
     /\ UNCHANGED <<cmd, rest, bg, nested, child, lines, cmd_his, handling,
                    inbg, own, code, sigchld, leader, stale>>

(* getline and the start of command(). *)
Read(l) ==
  /\ At("prompt") /\ lines < MaxLines
  /\ lines' = lines + 1
  /\ pc' = "classify"
  /\ cmd' = l.first
  /\ rest' = <<l.op, l.second>>
  /\ bg' = l.bg
  /\ nested' = FALSE
  /\ UNCHANGED <<child, processes, cmd_his, saved, handling, system, history>>

(* The end of the input. *)
EndOfInput == At("prompt") /\ shell_exit(processes)

(* cmd is done with that result; whether the second command of the line is  *)
(* run depends on the operator.  A command of the history counts as a       *)
(* success.                                                                 *)
Done(result) ==
  LET good == result \/ nested
      goes_on == CASE rest[1] = "and" -> good
                   [] rest[1] = "or" -> ~good
                   [] rest[1] = "then" -> TRUE
                   [] rest[1] = "none" -> FALSE
  IN /\ IF goes_on THEN pc' = "classify" /\ cmd' = rest[2]
                   ELSE pc' = "prompt" /\ cmd' = None
     /\ rest' = <<"none", None>>
     /\ nested' = FALSE
     /\ child' = None
     /\ UNCHANGED <<bg, lines>>

(* A built-in command that is done at once. *)
Builtin(result, remember) ==
  /\ Done(result)
  /\ cmd_his' = IF remember THEN Append(cmd_his, cmd) ELSE cmd_his
  /\ UNCHANGED <<processes, saved, handling, system, history>>

Is(name) == At("classify") /\ cmd[1] = name

cd == Is("cd") /\ \E found \in BOOLEAN : Builtin(found, found)
invalid == Is("invalid") /\ Builtin(FALSE, FALSE)
show_history == Is("!history") /\ Builtin(TRUE, FALSE)
exit == Is("exit") /\ shell_exit(processes)

(* #n and !prefix run a command of the history again, in the foreground;    *)
(* the line that asked for it is not remembered.                            *)
rerun ==
  /\ Is("#n")
  /\ \/ /\ \E i \in DOMAIN cmd_his : cmd' = cmd_his[i]
        /\ bg' = FALSE
        /\ nested' = TRUE
        /\ UNCHANGED <<pc, rest, child, lines, processes, cmd_his, saved, handling, system, history>>
     \/ Builtin(FALSE, FALSE)

(* "!" alone runs the last command again; without a history vector_get's    *)
(* assertion ends the shell.                                                *)
rerun_last ==
  /\ Is("!")
  /\ \/ /\ cmd_his # <<>>
        /\ cmd' = Last(cmd_his)
        /\ bg' = FALSE
        /\ nested' = TRUE
        /\ UNCHANGED <<pc, rest, child, lines>>
     \/ /\ cmd_his = <<>>
        /\ pc' = "exited"
        /\ UNCHANGED <<cmd, rest, bg, nested, child, lines>>
  /\ UNCHANGED <<processes, cmd_his, saved, handling, system, history>>

(* kill, stop and cont look the pid up in the table, whatever its status.   *)
Signals(name, from, to, c, t) ==
  /\ Is(name)
  /\ LET p == cmd[2] IN
     \/ /\ Entry(processes, p) # 0
        /\ Done(TRUE)
        /\ cmd_his' = Append(cmd_his, cmd)
        /\ processes' = t
        /\ IF state[p] \in from
           THEN /\ state' = [state EXCEPT ![p] = to]
                /\ code' = [code EXCEPT ![p] = c]
                /\ sigchld' = TRUE
           ELSE UNCHANGED <<state, code, sigchld>>
        /\ UNCHANGED <<saved, handling, inbg, own, leader, history>>
     \/ Entry(processes, p) = 0 /\ Builtin(FALSE, FALSE)

kill == Signals("kill", {"running", "stopped"}, "zombie", "signal",
                set_process_status(processes, cmd[2], "KILLED"))
stop == Signals("stop", {"running"}, "stopped", "ok", processes)
cont == Signals("cont", {"stopped"}, "running", "ok", processes)

(* create_info ends the shell, without shell_exit, at an entry whose        *)
(* process is gone.                                                         *)
ps ==
  /\ Is("ps")
  /\ LET shown == {i \in DOMAIN processes : processes[i][2] # "KILLED"}
         gone == {i \in shown : processes[i][1] # Self /\ state[processes[i][1]] = "free"}
     IN \/ gone = {} /\ Builtin(TRUE, TRUE)
        \/ /\ gone # {}
           /\ pc' = "exited"
           /\ UNCHANGED <<cmd, rest, bg, nested, child, lines, processes, cmd_his,
                          saved, handling, system, history>>

(* external: the parent's side of fork, with any pid that is free. *)
fork ==
  /\ Is("external")
  /\ \E p \in Pids :
       /\ state[p] = "free"
       /\ state' = [state EXCEPT ![p] = "running"]
       /\ inbg' = [inbg EXCEPT ![p] = bg]
       /\ child' = p /\ stale' = stale \ {p}
  /\ pc' = "forked"
  /\ UNCHANGED <<cmd, rest, bg, nested, lines, processes, cmd_his, saved, handling,
                 own, code, sigchld, leader, shot>>

(* A failed fork enters -1 into the table before shell_exit walks it. *)
fork_failed == Is("external") /\ shell_exit(add_process(processes, -1))

external_list ==
  /\ At("forked")
  /\ processes' = add_process(processes, child)
  /\ stale' = IF state[child] = "free" THEN stale \cup {child} ELSE stale
  /\ pc' = "listed"
  /\ UNCHANGED <<cmd, rest, bg, nested, child, lines, cmd_his, saved, handling, system, shot>>

Remember ==
  /\ Done(TRUE)
  /\ cmd_his' = Append(cmd_his, cmd)

(* A background child is waited for with WNOHANG: one that ended already is *)
(* reaped and its entry left as it is.                                      *)
external_background ==
  /\ At("listed") /\ bg
  /\ Remember
  /\ \/ state[child] = "zombie" /\ Reaped(child) /\ stale' = stale \cup {child}
     \/ state[child] # "zombie" /\ UNCHANGED <<state, inbg, own, code, stale>>
  /\ UNCHANGED <<processes, saved, handling, sigchld, leader, shot>>

external_block ==
  /\ At("listed") /\ ~bg /\ Alive(child)
  /\ pc' = "waiting"
  /\ UNCHANGED <<cmd, rest, bg, nested, child, lines, processes, cmd_his, saved,
                 handling, system, history>>

(* waitpid returned the child: a status other than 0 ends the shell. *)
external_ended ==
  /\ At("listed") \/ At("waiting")
  /\ ~bg /\ state[child] = "zombie"
  /\ Reaped(child)
  /\ \/ /\ code[child] = "fail"
        /\ pc' = "reaped" /\ stale' = stale \cup {child}
        /\ UNCHANGED <<cmd, rest, bg, nested, child, lines, processes, cmd_his>>
     \/ /\ code[child] # "fail"
        /\ processes' = set_process_status(processes, child, "KILLED")
        /\ Remember
        /\ UNCHANGED stale
  /\ UNCHANGED <<saved, handling, sigchld, leader, shot>>

external_failed == At("reaped") /\ shell_exit(processes)

(* The handler reaped the child: waitpid fails, and shell_exit(-1). *)
external_lost ==
  /\ At("listed") \/ At("waiting")
  /\ ~bg /\ state[child] = "free"
  /\ shell_exit(processes)

Command ==
  \/ cd \/ invalid \/ show_history \/ exit \/ rerun \/ rerun_last
  \/ kill \/ stop \/ cont \/ ps \/ fork \/ fork_failed
  \/ external_list \/ external_background \/ external_block
  \/ external_ended \/ external_failed \/ external_lost

Program(p) == setpgid(p) \/ \E c \in {"ok", "fail"} : Ends(p, c)

Next ==
  \/ \E l \in Lines : Read(l)
  \/ EndOfInput
  \/ Command
  \/ TakeSignal
  \/ signal_handler
  \/ \E p \in Pids : Program(p)

(* The shell and its handler are scheduled, and programs end. *)
Fairness ==
  /\ WF_vars(Command) /\ WF_vars(TakeSignal) /\ WF_vars(signal_handler)
  /\ \A p \in Pids : WF_vars(Program(p))

Spec == Init /\ [][Next]_vars /\ Fairness

(***************************************************************************)
(* Properties.                                                             *)
(***************************************************************************)
(* When the shell prompts, every child that lives was started in the        *)
(* background, is in the table, once, and is not marked KILLED there: kill, *)
(* stop, cont, ps and shell_exit reach exactly the children of now, however *)
(* often a pid was used before (shell.c:220-233,728-745,799-808).           *)
TableFollows ==
  pc = "prompt" =>
    \A p \in Pids :
      Alive(p) => /\ inbg[p]
                  /\ processes[Entry(processes, p)] = <<p, "RUNNING">>
                  /\ \A i \in DOMAIN processes : processes[i][1] = p => i = Entry(processes, p)

(* A shell that goes through shell_exit leaves no child alive but those     *)
(* that have a group of their own, and sends SIGKILL to nobody else than    *)
(* children that have none, of the background only those that have not      *)
(* come to their setpgid, and pids that its table wrongly calls RUNNING:    *)
(* to no background program, to nobody who got the pid of a child marked    *)
(* KILLED, and never to -1, although a failed fork puts that into the table *)
(* (shell.c:688,701,728,751-757).                                           *)
ExitIsClean ==
  /\ pc = "exited" /\ saved # None => \A p \in Pids : Alive(p) => own[p]
  /\ \A p \in shot : p \in Pids /\ (p \in stale \/ (state[p] = "zombie" /\ ~own[p]))

(* Every command ends with a prompt or with the end of the shell: the main  *)
(* thread is not left waiting for a child that the handler reaped           *)
(* (shell.c:159,731).                                                       *)
CommandEnded == pc \in {"prompt", "exited"}
=============================================================================
