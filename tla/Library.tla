------------------------------ MODULE Library ------------------------------
(***************************************************************************)
(* The heap allocator, the memory checker and dd side by side, each with   *)
(* variables of its own: their properties, under the assumptions on their  *)
(* inputs.                                                                 *)
(***************************************************************************)
EXTENDS Integers

CONSTANTS
  (* Malloc *)
  block_size, META, SPLIT, SEARCH, FREE, DefragLimit, HeapLimit, SizeMod,
  Requests, Nums,                          (* sizes and numbers asked for  *)
  Sizes, MaxBlocks, MaxBytes, MaxInvalid,  (* of Memcheck                  *)
  Nothing,                                 (* the NULL of both             *)
  MaxLength, MaxBlock, MaxSignals          (* of Dd                        *)

VARIABLES
  (* Malloc *)
  heap, defrag, lent, wrapped, outgrown,
  (* Memcheck *)
  list, total_memory_requested, total_memory_freed, invalid_addresses,
  allocated, held, mistakes, undefined,
  (* Dd *)
  opt, pos, buf, output, flag, stats, report, signals, at

malloc == <<heap, defrag, lent, wrapped, outgrown>>
memcheck == <<list, total_memory_requested, total_memory_freed, invalid_addresses,
              allocated, held, mistakes, undefined>>
dd == <<opt, pos, buf, output, flag, stats, report, signals, at>>

Heap == INSTANCE Malloc WITH Sizes <- Requests, NULL <- Nothing, held <- lent
Mem == INSTANCE Memcheck WITH NULL <- Nothing
Copy == INSTANCE Dd WITH pc <- at

ASSUME LibraryAssumption ==
  Heap!MallocAssumption /\ Mem!MemcheckAssumption /\ Copy!DdAssumption

(***************************************************************************)
(* Properties.                                                             *)
(***************************************************************************)
(* malloc and its kin: what callers hold is apart and large enough.         *)
HeldSafe == Heap!HeldSafe

(* malloc and its kin: the free lists have the free blocks, each its own.   *)
ListsSound == Heap!ListsSound

(* mini_memcheck: list, totals and count of bad addresses agree with what   *)
(* the caller was given and gave back.                                      *)
BooksBalance == Mem!BooksBalance

(* dd copies all that was asked for, and its reports agree with it. *)
CopyWhole == Copy!CopyWhole
=============================================================================
