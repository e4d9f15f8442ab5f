--------------------------------- MODULE Dd ---------------------------------
(***************************************************************************)
(* deepfried_dd/dd.c: blocks of a file are copied to another one, and      *)
(* SIGUSR1 asks for a report of the progress.  The input is the sequence   *)
(* 1..length of distinguishable bytes.  A seek only moves the position; the *)
(* first write behind it makes what was skipped read as 0.                 *)
(***************************************************************************)
EXTENDS Integers, Sequences, FiniteSets

CONSTANTS
  MaxLength,    (* bound on the length of the input                        *)
  MaxBlock,     (* bound on block_size and on the two offsets              *)
  MaxSignals    (* bound on the number of SIGUSR1                          *)

(* What the constants stand for; the modules that instantiate this one     *)
(* assume it.                                                              *)
DdAssumption == {MaxLength, MaxBlock, MaxSignals} \subseteq Nat

VARIABLES
  opt,        (* the command line: the length of the input, block_size,    *)
              (* copy_block (-1 without -c), input_offset, output_offset   *)
  pos,        (* position in the input                                     *)
  buf,        (* what fread gave                                           *)
  output,     (* the output file                                           *)
  flag,       (* a report was asked for                                    *)
  stats,      (* blocks_copied, full and partial blocks, total_bytes_copied *)
  report,     (* the latest report printed                                 *)
  signals,    (* SIGUSR1 sent so far                                       *)
  pc

vars == <<opt, pos, buf, output, flag, stats, report, signals, pc>>

NoStats == [copied |-> 0, full |-> 0, partial |-> 0, bytes |-> 0]

Init ==
  /\ opt \in [length : 0..MaxLength, block_size : 1..MaxBlock,
              copy_block : -1..MaxLength,
              input_offset : 0..MaxBlock, output_offset : 0..MaxBlock]
  /\ pos = 0 /\ buf = <<>> /\ output = <<>>
  /\ flag = FALSE /\ stats = NoStats /\ report = NoStats
  /\ signals = 0 /\ pc = "open"

signal_handler ==
  /\ pc \notin {"done", "failed"} /\ signals < MaxSignals
  /\ signals' = signals + 1
  /\ flag' = TRUE
  /\ UNCHANGED <<opt, pos, buf, output, stats, report, pc>>

Zeros(n) == [j \in 1..n |-> 0]

(* Opening the output truncates it; either file may fail to open or seek,   *)
(* the output after it was made.                                            *)
OpenAndSeek ==
  /\ pc = "open"
  /\ \/ /\ pos' = opt.input_offset * opt.block_size
        /\ output' = <<>>
        /\ pc' = "read"
     \/ pc' = "failed" /\ UNCHANGED <<pos, output>>
  /\ UNCHANGED <<opt, buf, flag, stats, report, signals>>

(* A block, less at the end of the input, nothing behind it. *)
fread ==
  /\ pc = "read"
  /\ LET last == IF pos + opt.block_size < opt.length
                 THEN pos + opt.block_size ELSE opt.length
     IN IF pos >= opt.length
        THEN buf' = <<>> /\ pc' = "last" /\ UNCHANGED pos
        ELSE /\ buf' = [j \in 1..(last - pos) |-> pos + j]
             /\ pos' = last
             /\ pc' = IF flag THEN "report" ELSE "write"
  /\ UNCHANGED <<opt, output, flag, stats, report, signals>>

(* print_report prints, then resets flag: a signal in between is forgotten. *)
print_report ==
  \/ /\ pc \in {"report", "last"}
     /\ report' = stats
     /\ pc' = IF pc = "report" THEN "reset" ELSE "reset_last"
     /\ UNCHANGED <<opt, pos, buf, output, flag, stats, signals>>
  \/ /\ pc \in {"reset", "reset_last"}
     /\ flag' = FALSE
     /\ pc' = IF pc = "reset" THEN "write" ELSE "done"
     /\ UNCHANGED <<opt, pos, buf, output, stats, report, signals>>

(* The output starts where the seek left the position. *)
Skipped == IF output = <<>> THEN Zeros(opt.output_offset * opt.block_size) ELSE output

(* A write that is cut short ends the program without a report. *)
fwrite ==
  /\ pc = "write"
  /\ \/ output' = Skipped \o buf /\ pc' = "count"
     \/ pc' = "failed" /\ UNCHANGED output
  /\ UNCHANGED <<opt, pos, buf, flag, stats, report, signals>>

(* Mutant: the count is compared before the block was added to it. *)
MutLimitAt(n) == opt.copy_block = n - 1
LimitAt(n) == opt.copy_block = n

(* The block that reaches copy_block counts as full even if it is short;    *)
(* a short block is the last one.                                           *)
Account ==
  LET n == stats.copied + 1
      limit == LimitAt(n)
      short == ~limit /\ Len(buf) # opt.block_size
  IN /\ pc = "count"
     /\ stats' = [copied |-> n, bytes |-> stats.bytes + Len(buf),
                  full |-> stats.full + (IF short THEN 0 ELSE 1),
                  partial |-> stats.partial + (IF short THEN 1 ELSE 0)]
     /\ pc' = IF limit \/ short THEN "last" ELSE "read"
     /\ UNCHANGED <<opt, pos, buf, output, flag, report, signals>>

Step == OpenAndSeek \/ fread \/ print_report \/ fwrite \/ Account
Next == signal_handler \/ Step
Spec == Init /\ [][Next]_vars /\ WF_vars(Step)

(***************************************************************************)
(* Properties.                                                             *)
(***************************************************************************)
(* The bytes a run with these options copies: from the input offset on, at  *)
(* most copy_block blocks, all of them when copy_block is 0.                *)
Wanted ==
  LET from == opt.input_offset * opt.block_size
      upto == IF opt.copy_block > 0 /\ from + opt.copy_block * opt.block_size < opt.length
              THEN from + opt.copy_block * opt.block_size ELSE opt.length
  IN [j \in 1..(IF upto > from THEN upto - from ELSE 0) |-> from + j]

(* A copy that ends well has written the whole of what was asked for behind *)
(* what it skipped, an empty file if that was nothing, whatever the offset, *)
(* and the last report has the bytes and the blocks of it;                  *)
(* a report in the middle counts whole blocks only, whenever the signal     *)
(* came (dd.c:101-144).                                                     *)
CopyWhole ==
  /\ pc = "done" =>
       /\ output = IF Wanted = <<>> THEN <<>>
                   ELSE Zeros(opt.output_offset * opt.block_size) \o Wanted
       /\ report.bytes = Len(Wanted)
       /\ report.full + report.partial
            = (Len(Wanted) + opt.block_size - 1) \div opt.block_size
  /\ pc \in {"reset", "write", "count"} =>
       report.bytes = report.full * opt.block_size
=============================================================================
