-------------------------------- MODULE Mmu --------------------------------
(***************************************************************************)
(* ideal_indirection/mmu.c: a memory management unit with a two-level page *)
(* table per process, all of it kept in physical frames, and a TLB that    *)
(* caches pointers to page table entries.                                  *)
(*                                                                         *)
(* kernel.c, tlb.c and the headers are not in the repository; they are     *)
(* modelled from how mmu.c uses them.  The kernel hands out cleared frames *)
(* (mmu.c never clears one: new_page_table has no caller) and, when none   *)
(* is free, evicts a page, never a table or a directory                    *)
(* (mmu_test.c:240); it saves an evicted page under the address of its     *)
(* entry when the entry is dirty.  A page table entry is named by its      *)
(* address, <<frame of the table, index>>.                                 *)
(***************************************************************************)
EXTENDS Integers, FiniteSets, FiniteSetsExt

CONSTANTS
  Pids,        (* process identifiers; mmu_create's calloc makes 0 current *)
  NumFrames,   (* physical frames                                          *)
  TlbSize,     (* entries of the TLB                                       *)
  Values,      (* contents of a page                                       *)
  SegFault,    (* reply to a refused access                                *)
  NULL

(* Pages are <<top level index, second level index>>.  TESTING lies in the  *)
(* first 4 MB, DATA and TEXT share one later page table.                    *)
TESTING == {<<0, 1>>, <<0, 2>>}
DATA == {<<1, 2>>}
TEXT == {<<1, 1>>}
Outside == {<<0, 0>>}
Writable == TESTING \cup DATA
Mapped == Writable \cup TEXT

Frames == 1..NumFrames
Indexes == 0..2
Entries == Frames \X Indexes

(* What the constants stand for; the modules that instantiate this one     *)
(* assume it.                                                              *)
MmuAssumption ==
  /\ NumFrames \in Nat /\ TlbSize \in Nat \ {0}
  /\ 0 \in Pids /\ IsFiniteSet(Pids)
  /\ 0 \in Values /\ Values \subseteq Nat /\ SegFault \notin Values
  /\ NULL \notin Nat \cup Entries \cup [Mapped -> Values]

VARIABLES
  page_directories, (* per process, NULL or the frame of its directory     *)
  curr_pid,
  tlb,              (* per page, NULL or the address of its entry          *)
  ram,              (* the physical frames, the kernel's records and the   *)
                    (* swap files                                          *)
  reply             (* the latest call and what it gave: <<"read", process, *)
                    (* page, contents>>, <<"write", process, page, contents>>*)
                    (* or, with SegFault, refused; <<"start", process>>;   *)
                    (* <<"stop", process>>; NULL after a new mmu            *)

vars == <<page_directories, curr_pid, tlb, ram, reply>>

Free == <<0, 0>>
Pinned == <<0, 1>>
NoFile == -1

NoTables == [i \in Indexes |-> 0]

(* Every frame can be looked at as a directory (dir), as a page table (pte) *)
(* or as a page (data); owner is the kernel's record of what it gave the    *)
(* frame for: a directory or a table (Pinned), or the page of an entry.     *)
NoEntries == [g \in Mapped |-> NULL]

Init ==
  /\ page_directories = [p \in Pids |-> NULL]
  /\ curr_pid = 0
  /\ tlb = NoEntries
  /\ ram = [owner |-> [f \in Frames |-> Free],
            dir |-> [f \in Frames |-> NoTables],
            data |-> [f \in Frames |-> 0],
            pte |-> [a \in Entries |-> 0],
            dirty |-> {},
            swap |-> [a \in Entries |-> NoFile]]
  /\ reply = NULL

(***************************************************************************)
(* The kernel.                                                             *)
(***************************************************************************)
FreeFrames(k) == {f \in Frames : k.owner[f] = Free}
PageFrames(k) == {f \in Frames : k.owner[f] \in Entries}

Evict(k, f) ==
  LET a == k.owner[f] IN
  [k EXCEPT !.pte[a] = 0,
            !.dirty = @ \ {a},
            !.swap[a] = IF a \in k.dirty THEN k.data[f] ELSE @]

Clear(k, fs) ==
  [k EXCEPT !.owner = [f \in Frames |-> IF f \in fs THEN Free ELSE @[f]],
            !.dir = [f \in Frames |-> IF f \in fs THEN NoTables ELSE @[f]],
            !.data = [f \in Frames |-> IF f \in fs THEN 0 ELSE @[f]],
            !.pte = [a \in Entries |-> IF a[1] \in fs THEN 0 ELSE @[a]],
            !.dirty = {a \in @ : a[1] \notin fs}]

Grant(k, f, who) == [frame |-> f, ram |-> [Clear(k, {f}) EXCEPT !.owner[f] = who]]

(* The frame granted and the memory after it, for every page the kernel     *)
(* may choose to evict.                                                     *)
ask_kernel_for_frame(k, who) ==
  IF FreeFrames(k) # {}
  THEN {Grant(k, Min(FreeFrames(k)), who)}
  ELSE {Grant(Evict(k, f), f, who) : f \in PageFrames(k)}

return_frames_to_kernel(k, fs) == Clear(k, fs)

read_page_from_disk(k, a) ==
  IF k.swap[a] # NoFile
  THEN [k EXCEPT !.data[k.pte[a]] = k.swap[a]]
  ELSE k

remove_swap_files(k, as) ==
  [k EXCEPT !.swap = [a \in Entries |-> IF a \in as THEN NoFile ELSE @[a]]]

Cached(t) == {g \in Mapped : t[g] # NULL}

(* A full TLB drops any one entry. *)
tlb_add_pte(t, g, a) ==
  LET room == g \in Cached(t) \/ Cardinality(Cached(t)) < TlbSize
  IN \/ room /\ tlb' = [t EXCEPT ![g] = a]
     \/ ~room /\ \E h \in Cached(t) : tlb' = [t EXCEPT ![h] = NULL, ![g] = a]

(***************************************************************************)
(* get_table_entry.                                                        *)
(***************************************************************************)
Present(k, a, f) == [k EXCEPT !.pte[a] = f]

(* Mutant: no tlb_flush. *)
MutSwitchTo(p) == tlb

(* Another process than the one before starts with an empty TLB. *)
SwitchTo(p) == IF curr_pid # p THEN NoEntries ELSE tlb

(* The page table for top level index i of directory d, asked for when the  *)
(* directory has none.                                                      *)
TableOf(k, d, i) ==
  IF k.dir[d][i] # 0 THEN {[frame |-> k.dir[d][i], ram |-> k]}
  ELSE {[frame |-> r.frame, ram |-> [r.ram EXCEPT !.dir[d][i] = r.frame]]
        : r \in ask_kernel_for_frame(k, Pinned)}

(* The entry a with its page in memory: also a hit of the TLB may find the  *)
(* page evicted since.                                                      *)
PageIn(k, a) ==
  IF k.pte[a] # 0 THEN {k}
  ELSE {read_page_from_disk(Present(r.ram, a, r.frame), a)
        : r \in ask_kernel_for_frame(k, a)}

Lookup(k, t, d, g) ==
  IF g \in Cached(t)
  THEN {[entry |-> t[g], ram |-> k]}
  ELSE {[entry |-> <<r.frame, g[2]>>, ram |-> r.ram] : r \in TableOf(k, d, g[1])}

(* The entry for page g of process p and the memory after the faults, for   *)
(* every choice of the kernel.                                              *)
get_table_entry(p, g) ==
  UNION {{[entry |-> l.entry, ram |-> k] : k \in PageIn(l.ram, l.entry)}
         : l \in Lookup(ram, SwitchTo(p), page_directories[p], g)}

(***************************************************************************)
(* The interface.                                                          *)
(***************************************************************************)
Refused(op, p, g) ==
  /\ curr_pid' = p
  /\ tlb' = SwitchTo(p)
  /\ reply' = <<op, p, g, SegFault>>
  /\ UNCHANGED <<page_directories, ram>>

(* The switch to process p and what the TLB keeps of the access. *)
Translated(p, g, a) ==
  /\ curr_pid' = p
  /\ tlb_add_pte(SwitchTo(p), g, a)
  /\ UNCHANGED page_directories

(* `seg->permissions && READ` holds of every segment. *)
mmu_read_from_virtual_address(p, g) ==
  /\ page_directories[p] # NULL
  /\ \/ g \notin Mapped /\ Refused("read", p, g)
     \/ /\ g \in Mapped
        /\ \E r \in get_table_entry(p, g) :
             /\ Translated(p, g, r.entry)
             /\ ram' = r.ram
             /\ reply' = <<"read", p, g, r.ram.data[r.ram.pte[r.entry]]>>

(* Mutant: the entry is not marked dirty. *)
MutMarkDirty(k, a) == k.dirty
MarkDirty(k, a) == k.dirty \cup {a}

mmu_write_to_virtual_address(p, g, v) ==
  /\ page_directories[p] # NULL
  /\ \/ g \notin Writable /\ Refused("write", p, g)
     \/ /\ g \in Writable
        /\ \E r \in get_table_entry(p, g) :
             /\ Translated(p, g, r.entry)
             /\ ram' = [r.ram EXCEPT !.dirty = MarkDirty(r.ram, r.entry),
                                     !.data[r.ram.pte[r.entry]] = v]
             /\ reply' = <<"write", p, g, v>>

(* A frame for the directory, one for the table of its first 4 MB and one   *)
(* for each page of TESTING, in this order: the later ones may evict what   *)
(* the earlier ones brought in.                                             *)
mmu_add_process(p) ==
  /\ page_directories[p] = NULL
  /\ \E d \in ask_kernel_for_frame(ram, Pinned) :
     \E t \in ask_kernel_for_frame(d.ram, Pinned) :
     \E g1 \in ask_kernel_for_frame([t.ram EXCEPT !.dir[d.frame][0] = t.frame],
                                    <<t.frame, 1>>) :
     \E g2 \in ask_kernel_for_frame(Present(g1.ram, <<t.frame, 1>>, g1.frame),
                                    <<t.frame, 2>>) :
       /\ page_directories' = [page_directories EXCEPT ![p] = d.frame]
       /\ ram' = Present(g2.ram, <<t.frame, 2>>, g2.frame)
  /\ reply' = <<"start", p>>
  /\ UNCHANGED <<curr_pid, tlb>>

(* What hangs on the directories ds. *)
Tables(k, ds) == {k.dir[d][i] : d \in ds, i \in Indexes} \ {0}
EntriesOf(k, ds) == Tables(k, ds) \X Indexes
Pages(k, ds) == {k.pte[a] : a \in EntriesOf(k, ds)} \ {0}

(* The frames of the pages in memory, the tables and the directories go     *)
(* back, and the swap file of every entry is removed.                       *)
Released(k, ds) ==
  remove_swap_files(return_frames_to_kernel(k, Pages(k, ds) \cup Tables(k, ds) \cup ds),
                    EntriesOf(k, ds))

Directories == {page_directories[p] : p \in Pids} \ {NULL}

mmu_remove_process(p) ==
  /\ page_directories[p] # NULL
  /\ ram' = Released(ram, {page_directories[p]})
  /\ page_directories' = [page_directories EXCEPT ![p] = NULL]
  /\ tlb' = IF curr_pid = p THEN NoEntries ELSE tlb
  /\ reply' = <<"stop", p>>
  /\ UNCHANGED curr_pid

(* mmu_delete removes every process; a new mmu is then created. *)
mmu_delete ==
  /\ ram' = Released(ram, Directories)
  /\ page_directories' = [p \in Pids |-> NULL]
  /\ curr_pid' = 0
  /\ tlb' = NoEntries
  /\ reply' = NULL

Next ==
  \/ mmu_delete
  \/ \E p \in Pids :
       \/ mmu_add_process(p)
       \/ mmu_remove_process(p)
       \/ \E g \in Mapped \cup Outside :
            \/ mmu_read_from_virtual_address(p, g)
            \/ \E v \in Values : mmu_write_to_virtual_address(p, g, v)

Spec == Init /\ [][Next]_vars

(***************************************************************************)
(* Properties.                                                             *)
(***************************************************************************)
(* The entry that the tables of process p hold for page g; NULL without a   *)
(* table.                                                                   *)
EntryOf(p, g) ==
  LET table == ram.dir[page_directories[p]][g[1]]
  IN IF table = 0 THEN NULL ELSE <<table, g[2]>>

Contents(a) ==
  CASE a # NULL /\ ram.pte[a] # 0 -> ram.data[ram.pte[a]]
    [] a # NULL /\ ram.pte[a] = 0 /\ ram.swap[a] # NoFile -> ram.swap[a]
    [] OTHER -> 0

(* What the mmu and the kernel do together implements a private memory per  *)
(* process: across evictions, page faults, TLB hits, context switches and   *)
(* pids and frames used again, a process reads at a page what it wrote to   *)
(* that page itself, and zeros where it wrote nothing; the reply names who  *)
(* asked and for which page (mmu.c:72-144, mmu_test.c:100-131,220-243).     *)
Abstract ==
  INSTANCE PrivateMemory WITH
    ReadOnly <- TEXT, ReadWrite <- Writable,
    memory <- [p \in Pids |-> IF page_directories[p] = NULL THEN NULL
                              ELSE [g \in Mapped |-> Contents(EntryOf(p, g))]]
IsPrivateMemory == Abstract!MemorySpec

(* Every entry the TLB caches is the one that the page tables of the        *)
(* current process hold now: context switches, removals and page table      *)
(* frames that change hands leave no stale pointer behind (mmu.c:31,79,     *)
(* 262-264).                                                                *)
TlbSound ==
  /\ Cardinality(Cached(tlb)) <= TlbSize
  /\ \A g \in Cached(tlb) : /\ page_directories[curr_pid] # NULL
                           /\ tlb[g] = EntryOf(curr_pid, g)

(* Every frame that the kernel counts as taken is the directory, a page     *)
(* table or a page in memory of exactly one place of one process, and the   *)
(* swap files are those of living entries: mmu_remove_process returns all a *)
(* process had, and no frame serves twice (mmu.c:235-265).                  *)
FramesAccounted ==
  LET live == Directories
      tables == Tables(ram, live)
      pages == {f \in Frames : \E a \in tables \X Indexes :
                  ram.pte[a] = f /\ ram.owner[f] = a}
      present == {a \in Entries : ram.pte[a] # 0}
  IN /\ {f \in Frames : ram.owner[f] = Pinned} = live \cup tables
     /\ PageFrames(ram) = pages
     /\ Cardinality(live) + Cardinality(tables) + Cardinality(present)
          = NumFrames - Cardinality(FreeFrames(ram))
     /\ \A a \in Entries : ram.swap[a] # NoFile => a[1] \in tables

(* No pointer and no frame outlives what it belongs to. *)
TablesSound == TlbSound /\ FramesAccounted
=============================================================================
