----------------------------- MODULE Processes -----------------------------
(***************************************************************************)
(* The shell and the map-reduce driver side by side, each with variables   *)
(* of its own: their safety properties, under the assumptions on their     *)
(* inputs.                                                                 *)
(***************************************************************************)
EXTENDS Integers

CONSTANTS
  Pids, Self, Lines, MaxLines, None,  (* of Shell                           *)
  mapper_count, Capacity, Share       (* of MapReduce                       *)

VARIABLES
  (* Shell *)
  pc, cmd, rest, bg, nested, child, lines, processes, cmd_his, saved, handling,
  state, inbg, own, code, sigchld, leader, shot, stale,
  (* MapReduce *)
  driver, next, ends, life, broken, buffer, todo, output

shell == <<pc, cmd, rest, bg, nested, child, lines, processes, cmd_his, saved,
           handling, state, inbg, own, code, sigchld, leader, shot, stale>>
mapreduce == <<driver, next, ends, life, broken, buffer, todo, output>>

Sh == INSTANCE Shell
Mr == INSTANCE MapReduce

ASSUME ProcessesAssumption == Sh!ShellAssumption /\ Mr!MapReduceAssumption

(***************************************************************************)
(* Properties.                                                             *)
(***************************************************************************)
(* The shell's table has the living children of now, however often a pid    *)
(* was used before.                                                         *)
TableFollows == Sh!TableFollows

(* shell_exit kills the children in the shell's own group and, but for      *)
(* entries that are out of date, nobody else.                               *)
ExitIsClean == Sh!ExitIsClean

(* The map-reduce driver is done only when the reducer has read all there   *)
(* was, once.                                                               *)
OutputWhole == Mr!OutputWhole
=============================================================================
