--------------------------- MODULE PrivateMemory ---------------------------
(***************************************************************************)
(* What ideal_indirection/mmu.c promises its processes: each of them has a *)
(* memory of its own that starts as zeros, a read returns what the same    *)
(* process last wrote to that page, and an access outside the segments, or *)
(* a write to a read-only one, is a fault that changes nothing.            *)
(***************************************************************************)
EXTENDS Integers

CONSTANTS
  Pids,       (* process identifiers                                       *)
  ReadOnly,   (* pages of the segments without WRITE                       *)
  ReadWrite,  (* pages of the segments with READ | WRITE                   *)
  Outside,    (* pages of no segment                                       *)
  Values,     (* contents of a page, with 0 among them                     *)
  SegFault,   (* reply to a refused access                                 *)
  NULL

VARIABLES
  memory,     (* per process, NULL or the contents of its pages            *)
  reply       (* the latest access, with who made it, where, and what it   *)
              (* read, wrote or was refused                                *)

Mapped == ReadOnly \cup ReadWrite

MemoryInit == memory = [p \in Pids |-> NULL] /\ reply = NULL

Start(p) ==
  /\ memory[p] = NULL
  /\ memory' = [memory EXCEPT ![p] = [g \in Mapped |-> 0]]
  /\ reply' = <<"start", p>>

Stop(p) ==
  /\ memory[p] # NULL
  /\ memory' = [memory EXCEPT ![p] = NULL]
  /\ reply' = <<"stop", p>>

StopAll == MemoryInit'

ReadPage(p, g) ==
  /\ memory[p] # NULL
  /\ reply' = <<"read", p, g, IF g \in Mapped THEN memory[p][g] ELSE SegFault>>
  /\ UNCHANGED memory

WritePage(p, g, v) ==
  /\ memory[p] # NULL
  /\ \/ /\ g \in ReadWrite
        /\ memory' = [memory EXCEPT ![p][g] = v]
        /\ reply' = <<"write", p, g, v>>
     \/ /\ g \notin ReadWrite
        /\ reply' = <<"write", p, g, SegFault>>
        /\ UNCHANGED memory

MemoryNext ==
  \/ StopAll
  \/ \E p \in Pids :
       \/ Start(p)
       \/ Stop(p)
       \/ \E g \in Mapped \cup Outside :
            ReadPage(p, g) \/ \E v \in Values : WritePage(p, g, v)

MemorySpec == MemoryInit /\ [][MemoryNext]_<<memory, reply>>
=============================================================================
