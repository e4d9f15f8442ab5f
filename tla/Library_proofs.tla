--------------------------- MODULE Library_proofs ---------------------------
(***************************************************************************)
(* Proofs about the memory management unit, Mmu, the deadlock resistant     *)
(* mutexes, Drm, the copy of dd, Dd, and the bookkeeping of mini_memcheck,  *)
(* Memcheck, for every value of their constants.                           *)
(***************************************************************************)
EXTENDS Mmu, Library, Mutexes, SequenceLemmas, FiniteSetTheorems, TLAPS

Rams ==
  [owner : [Frames -> Entries \cup {Free, Pinned}],
   dir : [Frames -> [Indexes -> 0..NumFrames]],
   data : [Frames -> Values],
   pte : [Entries -> 0..NumFrames],
   dirty : SUBSET Entries,
   swap : [Entries -> Values \cup {NoFile}]]

(* What evicting the page of a frame leaves.                                *)
LEMMA EvictFields ==
  ASSUME MmuAssumption, NEW k \in Rams, NEW f \in Frames, k.owner[f] \in Entries
  PROVE  LET e == Evict(k, f)
             a == k.owner[f]
         IN /\ e \in Rams
            /\ e.owner = k.owner /\ e.dir = k.dir /\ e.data = k.data
            /\ e.pte = [k.pte EXCEPT ![a] = 0]
            /\ e.dirty = k.dirty \ {a}
            /\ e.swap = [k.swap EXCEPT ![a] = IF a \in k.dirty THEN k.data[f] ELSE @]
<1> DEFINE e == Evict(k, f)
           a == k.owner[f]
<1>1. /\ e.owner = k.owner /\ e.dir = k.dir /\ e.data = k.data
      /\ e.pte = [k.pte EXCEPT ![a] = 0]
      /\ e.dirty = k.dirty \ {a}
      /\ e.swap = [k.swap EXCEPT ![a] = IF a \in k.dirty THEN k.data[f] ELSE @]
  BY DEF Evict, Rams
<1>2. 0 \in 0..NumFrames
  BY DEF MmuAssumption
<1>3. e \in Rams
  BY <1>2 DEF Evict, Rams
<1> QED
  BY <1>1, <1>3

LEMMA ClearFields ==
  ASSUME MmuAssumption, NEW k \in Rams, NEW fs
  PROVE  LET c == Clear(k, fs)
         IN /\ c \in Rams
            /\ c.owner = [f \in Frames |-> IF f \in fs THEN Free ELSE k.owner[f]]
            /\ c.dir = [f \in Frames |-> IF f \in fs THEN NoTables ELSE k.dir[f]]
            /\ c.data = [f \in Frames |-> IF f \in fs THEN 0 ELSE k.data[f]]
            /\ c.pte = [a \in Entries |-> IF a[1] \in fs THEN 0 ELSE k.pte[a]]
            /\ c.dirty = {a \in k.dirty : a[1] \notin fs}
            /\ c.swap = k.swap
<1> DEFINE c == Clear(k, fs)
<1>1. c.owner = [f \in Frames |-> IF f \in fs THEN Free ELSE k.owner[f]]
  BY DEF Clear, Rams
<1>2. c.dir = [f \in Frames |-> IF f \in fs THEN NoTables ELSE k.dir[f]]
  BY DEF Clear, Rams
<1>3. c.data = [f \in Frames |-> IF f \in fs THEN 0 ELSE k.data[f]]
  BY DEF Clear, Rams
<1>4. c.pte = [a \in Entries |-> IF a[1] \in fs THEN 0 ELSE k.pte[a]]
  BY DEF Clear, Rams
<1>5. c.dirty = {a \in k.dirty : a[1] \notin fs}
  BY DEF Clear, Rams
<1>6. c.swap = k.swap
  BY DEF Clear, Rams
<1>7. 0 \in 0..NumFrames /\ 0 \in Values
  BY SMTT(40) DEF MmuAssumption
<1>8. c \in Rams
  BY <1>7 DEF Clear, Rams, NoTables
<1> QED
  BY <1>1, <1>2, <1>3, <1>4, <1>5, <1>6, <1>8

LEMMA GrantFields ==
  ASSUME MmuAssumption, NEW k \in Rams, NEW f \in Frames, NEW who \in Entries \cup {Pinned}
  PROVE  LET r == Grant(k, f, who)
         IN /\ r.frame = f /\ r.ram \in Rams
            /\ \A g \in Frames :
                 /\ r.ram.owner[g] = IF g = f THEN who ELSE k.owner[g]
                 /\ r.ram.dir[g] = IF g = f THEN NoTables ELSE k.dir[g]
                 /\ r.ram.data[g] = IF g = f THEN 0 ELSE k.data[g]
            /\ \A a \in Entries :
                 /\ r.ram.pte[a] = IF a[1] = f THEN 0 ELSE k.pte[a]
                 /\ a \in r.ram.dirty <=> a \in k.dirty /\ a[1] # f
            /\ r.ram.swap = k.swap
<1> DEFINE c == Clear(k, {f})
           r == Grant(k, f, who)
<1>1. /\ c \in Rams
      /\ c.owner = [g \in Frames |-> IF g \in {f} THEN Free ELSE k.owner[g]]
      /\ c.dir = [g \in Frames |-> IF g \in {f} THEN NoTables ELSE k.dir[g]]
      /\ c.data = [g \in Frames |-> IF g \in {f} THEN 0 ELSE k.data[g]]
      /\ c.pte = [a \in Entries |-> IF a[1] \in {f} THEN 0 ELSE k.pte[a]]
      /\ c.dirty = {a \in k.dirty : a[1] \notin {f}}
      /\ c.swap = k.swap
  BY ClearFields
<1>2. r.frame = f /\ r.ram = [c EXCEPT !.owner[f] = who]
  BY DEF Grant
<1> HIDE DEF c, r
<1>3. /\ r.ram.owner = [c.owner EXCEPT ![f] = who]
      /\ r.ram.dir = c.dir /\ r.ram.data = c.data /\ r.ram.pte = c.pte
      /\ r.ram.dirty = c.dirty /\ r.ram.swap = c.swap
  BY <1>1, <1>2 DEF Rams
<1>4. r.ram \in Rams
  <2>1. c \in Rams
    BY <1>1
  <2>2. [c EXCEPT !.owner[f] = who] \in Rams
    BY <2>1 DEF Rams
  <2> QED
    BY <1>2, <2>2
<1>5. /\ k.owner \in [Frames -> Entries \cup {Free, Pinned}]
      /\ k.dir \in [Frames -> [Indexes -> 0..NumFrames]] /\ k.data \in [Frames -> Values]
  BY DEF Rams
<1>6. \A g \in Frames :
        /\ r.ram.owner[g] = IF g = f THEN who ELSE k.owner[g]
        /\ r.ram.dir[g] = IF g = f THEN NoTables ELSE k.dir[g]
        /\ r.ram.data[g] = IF g = f THEN 0 ELSE k.data[g]
  BY <1>1, <1>3
<1>7. \A a \in Entries :
        /\ r.ram.pte[a] = IF a[1] = f THEN 0 ELSE k.pte[a]
        /\ a \in r.ram.dirty <=> a \in k.dirty /\ a[1] # f
  BY <1>1, <1>3
<1>8. r.ram.swap = k.swap
  BY <1>1, <1>3
<1> QED
  BY <1>2, <1>4, <1>6, <1>7, <1>8 DEF r

(* Of the page that entry a stands for: in its frame, in its swap file, or  *)
(* nowhere yet.                                                             *)
Held(k, a) ==
  IF k.pte[a] # 0 THEN k.data[k.pte[a]]
  ELSE IF k.swap[a] # NoFile THEN k.swap[a] ELSE 0

(* What a process with directory d sees at <<i, j>>. *)
View(k, d, i, j) == IF k.dir[d][i] = 0 THEN 0 ELSE Held(k, <<k.dir[d][i], j>>)

(* Going from k to l changes nothing of what the processes with directories *)
(* ds see, and moves none of their tables.                                  *)
Keeps(k, l, ds) ==
  \A d \in ds, i \in Indexes :
    /\ k.dir[d][i] # 0 => l.dir[d][i] = k.dir[d][i]
    /\ \A j \in Indexes : View(l, d, i, j) = View(k, d, i, j)

(* The frames that are pinned are the directories ds and their tables. *)
Pinning(k, ds) == \A f \in Frames : k.owner[f] = Pinned <=> f \in ds \cup Tables(k, ds)

(* A table has one place in one directory, and is not a directory itself. *)
Trees(k, ds) ==
  /\ ds \subseteq Frames /\ ds \cap Tables(k, ds) = {}
  /\ \A d, e \in ds, i, j \in Indexes :
       k.dir[d][i] # 0 /\ k.dir[d][i] = k.dir[e][j] => d = e /\ i = j

(* Only entries of tables point anywhere, to a frame that was granted for   *)
(* them.                                                                    *)
Pointers(k, ds) ==
  \A a \in Entries : k.pte[a] # 0 => k.owner[k.pte[a]] = a /\ a[1] \in Tables(k, ds)

(* Frames outside spare that were granted for an entry hold its page. *)
Granted(k, spare) ==
  \A f \in Frames \ spare : k.owner[f] \in Entries => k.pte[k.owner[f]] = f

(* Only entries of tables have swap files. *)
Files(k, ds) == \A a \in Entries : k.swap[a] # NoFile => a[1] \in Tables(k, ds)

(* The page of an entry that is not dirty is as it was read. *)
CleanPages(k) ==
  \A a \in Entries : k.pte[a] # 0 /\ a \notin k.dirty =>
    k.data[k.pte[a]] = IF k.swap[a] = NoFile THEN 0 ELSE k.swap[a]

(* The memory with the directories ds; frames of spare may have lost their  *)
(* page.                                                                    *)
MemInv(k, ds, spare) ==
  /\ k \in Rams
  /\ Pinning(k, ds) /\ Trees(k, ds) /\ Pointers(k, ds) /\ Granted(k, spare)
  /\ Files(k, ds) /\ CleanPages(k)

(* Frame f is free for any use. *)
Spare(k, f) == f \in Frames /\ k.owner[f] # Pinned /\ \A a \in Entries : k.pte[a] # f

(* Entry a has no page yet; no entry of table t has one. *)
Blank(k, a) == k.pte[a] = 0 /\ k.swap[a] = NoFile
BlankTable(k, t) == \A a \in Entries : a[1] = t => Blank(k, a)

(* What was blank stays so, but for entry a. *)
BlanksStay(k, l, a) == \A b \in Entries \ {a} : Blank(k, b) => Blank(l, b)

(* The directories ds do not change. *)
SameTables(k, l, ds) == \A d \in ds : l.dir[d] = k.dir[d]

(* Sets without a common element. *)
LEMMA DisjointCount ==
  ASSUME NEW S, NEW T, IsFiniteSet(S), IsFiniteSet(T), S \cap T = {}
  PROVE  IsFiniteSet(S \cup T) /\ Cardinality(S \cup T) = Cardinality(S) + Cardinality(T)
<1>1. /\ IsFiniteSet(S \cup T)
      /\ Cardinality(S \cup T) = Cardinality(S) + Cardinality(T) - Cardinality(S \cap T)
  BY FS_Union
<1>2. Cardinality({}) = 0 /\ Cardinality(S) \in Nat /\ Cardinality(T) \in Nat
  BY FS_EmptySet, FS_CardinalityType
<1>3. Cardinality(S \cap T) = 0
  BY <1>2
<1> QED
  BY <1>1, <1>2, <1>3

(***************************************************************************)
(* The kernel                                                              *)
(***************************************************************************)
LEMMA RamTypes ==
  ASSUME NEW k \in Rams
  PROVE  /\ k.owner \in [Frames -> Entries \cup {Free, Pinned}]
         /\ k.dir \in [Frames -> [Indexes -> 0..NumFrames]]
         /\ k.data \in [Frames -> Values]
         /\ k.pte \in [Entries -> 0..NumFrames]
         /\ k.dirty \subseteq Entries
         /\ k.swap \in [Entries -> Values \cup {NoFile}]
  BY DEF Rams

LEMMA Distinct ==
  /\ Free \notin Entries /\ Pinned \notin Entries /\ Free # Pinned
  /\ 0 \notin Frames /\ 0 \in Indexes /\ 1 \in Indexes /\ 2 \in Indexes
  BY DEF Free, Pinned, Entries, Frames, Indexes

LEMMA KeepsLasts ==
  ASSUME NEW k, NEW l, NEW n, NEW ds, NEW es, ds \subseteq es,
         Keeps(k, l, ds), Keeps(l, n, es)
  PROVE  Keeps(k, n, ds)
  BY DEF Keeps

(* The tables that directories have are frames. *)
LEMMA TablesAre ==
  ASSUME MmuAssumption, NEW k \in Rams, NEW ds, ds \subseteq Frames
  PROVE  /\ Tables(k, ds) \subseteq Frames
         /\ \A d \in ds, i \in Indexes : k.dir[d][i] # 0 => k.dir[d][i] \in Tables(k, ds)
         /\ \A f \in Tables(k, ds) : \E d \in ds, i \in Indexes : k.dir[d][i] = f
<1>1. \A d \in ds, i \in Indexes : k.dir[d][i] \in 0..NumFrames
  BY RamTypes
<1> QED
  BY <1>1 DEF Tables, Frames, MmuAssumption

LEMMA TableIs ==
  ASSUME MmuAssumption, NEW k \in Rams, NEW ds, ds \subseteq Frames,
         NEW d \in ds, NEW i \in Indexes, k.dir[d][i] # 0
  PROVE  k.dir[d][i] \in Tables(k, ds) /\ k.dir[d][i] \in Frames
  BY TablesAre

(* Nothing changes for processes whose tables stay and hold what they held. *)
LEMMA KeepsByHeld ==
  ASSUME MmuAssumption, NEW k \in Rams, NEW l,
         NEW ds, ds \subseteq Frames, \A d \in ds : l.dir[d] = k.dir[d],
         \A a \in Entries : a[1] \in Tables(k, ds) => Held(l, a) = Held(k, a)
  PROVE  Keeps(k, l, ds)
<1> SUFFICES ASSUME NEW d \in ds, NEW i \in Indexes, NEW j \in Indexes
             PROVE  View(l, d, i, j) = View(k, d, i, j)
  BY DEF Keeps
<1>1. l.dir[d][i] = k.dir[d][i]
  OBVIOUS
<1>2. CASE k.dir[d][i] # 0
  <2>1. k.dir[d][i] \in Frames /\ k.dir[d][i] \in Tables(k, ds)
    BY <1>2, TablesAre
  <2>2. <<k.dir[d][i], j>> \in Entries /\ <<k.dir[d][i], j>>[1] = k.dir[d][i]
    BY <2>1 DEF Entries
  <2>3. Held(l, <<k.dir[d][i], j>>) = Held(k, <<k.dir[d][i], j>>)
    BY <2>1, <2>2
  <2> QED
    BY <1>1, <2>3 DEF View
<1> QED
  BY <1>1, <1>2 DEF View

LEMMA FreeIsSpare ==
  ASSUME MmuAssumption, NEW k, NEW ds, MemInv(k, ds, {}), NEW f \in FreeFrames(k)
  PROVE  Spare(k, f) /\ MemInv(k, ds, {f})
<1>1. f \in Frames /\ k.owner[f] = Free
  BY DEF FreeFrames
<1>2. \A a \in Entries : k.pte[a] # f
  BY <1>1, Distinct DEF MemInv, Pointers
<1> QED
  BY <1>1, <1>2, Distinct DEF Spare, MemInv, Granted

LEMMA EvictedIsSpare ==
  ASSUME MmuAssumption, NEW k, NEW ds, MemInv(k, ds, {}), NEW f \in PageFrames(k)
  PROVE  LET e == Evict(k, f)
         IN /\ Spare(e, f) /\ MemInv(e, ds, {f}) /\ Keeps(k, e, ds)
            /\ BlanksStay(k, e, NULL)
<1> DEFINE e == Evict(k, f)
           a == k.owner[f]
<1>1. /\ f \in Frames /\ a \in Entries /\ k \in Rams /\ k.pte[a] = f
      /\ Pinning(k, ds) /\ Trees(k, ds) /\ Pointers(k, ds) /\ Granted(k, {})
      /\ Files(k, ds) /\ CleanPages(k) /\ a[1] \in Tables(k, ds)
  BY Distinct DEF PageFrames, MemInv, Granted, Pointers
<1>2. /\ e \in Rams
      /\ e.owner = k.owner /\ e.dir = k.dir /\ e.data = k.data
      /\ e.pte = [k.pte EXCEPT ![a] = 0]
      /\ e.dirty = k.dirty \ {a}
      /\ e.swap = [k.swap EXCEPT ![a] = IF a \in k.dirty THEN k.data[f] ELSE @]
  BY <1>1, EvictFields
<1>t. /\ k.pte \in [Entries -> 0..NumFrames] /\ k.swap \in [Entries -> Values \cup {NoFile}]
      /\ k.data[f] \in Values /\ NoFile \notin Values /\ f # 0
  BY <1>1, RamTypes, Distinct DEF MmuAssumption, NoFile
<1> HIDE DEF e, a
<1>3. Tables(e, ds) = Tables(k, ds)
  BY <1>2 DEF Tables
<1>4. Pinning(e, ds) /\ Trees(e, ds)
  BY <1>1, <1>2, <1>3 DEF Pinning, Trees
<1>5. /\ e.pte[a] = 0 /\ e.swap[a] = IF a \in k.dirty THEN k.data[f] ELSE k.swap[a]
      /\ \A b \in Entries : b # a => e.pte[b] = k.pte[b] /\ e.swap[b] = k.swap[b]
  BY <1>1, <1>2, <1>t
<1>6. Pointers(e, ds)
  BY <1>1, <1>2, <1>3, <1>5 DEF Pointers
<1>7. Spare(e, f)
  BY <1>1, <1>2, <1>5, Distinct DEF Pointers, Spare
<1>8. Granted(e, {f})
  BY <1>1, <1>2, <1>5 DEF Granted
<1>9. Files(e, ds)
  BY <1>1, <1>3, <1>5 DEF Files
<1>10. CleanPages(e)
  BY <1>1, <1>2, <1>5 DEF CleanPages
<1>11. \A b \in Entries : Held(e, b) = Held(k, b)
  <2>1. Held(k, a) = k.data[f]
    BY <1>1, <1>t DEF Held
  <2>2. CASE a \in k.dirty
    <3>1. Held(e, a) = k.data[f]
      BY <1>5, <1>t, <2>2 DEF Held
    <3> QED
      BY <1>2, <1>5, <2>1, <3>1 DEF Held
  <2>3. CASE a \notin k.dirty
    <3>1. k.data[f] = IF k.swap[a] = NoFile THEN 0 ELSE k.swap[a]
      BY <1>1, <1>t, <2>3 DEF CleanPages
    <3>2. Held(e, a) = k.data[f]
      BY <1>5, <2>3, <3>1 DEF Held
    <3> QED
      BY <1>2, <1>5, <2>1, <3>2 DEF Held
  <2> QED
    BY <2>2, <2>3
<1>12. Keeps(k, e, ds)
  BY <1>1, <1>2, <1>11, KeepsByHeld DEF Trees
<1>13. BlanksStay(k, e, NULL)
  BY <1>1, <1>5, <1>t DEF Blank, BlanksStay
<1>14. MemInv(e, ds, {f})
  BY <1>2, <1>4, <1>6, <1>8, <1>9, <1>10 DEF MemInv
<1> QED
  BY <1>7, <1>12, <1>13, <1>14 DEF e

(* A frame that may be used serves nothing. *)
LEMMA SpareIsUnused ==
  ASSUME NEW k, NEW ds, NEW f, NEW s, Spare(k, f), MemInv(k, ds, s)
  PROVE  /\ f \in Frames /\ f \notin ds /\ f \notin Tables(k, ds)
         /\ BlankTable(k, f)
  BY DEF Spare, MemInv, Pinning, Pointers, Files, Blank, BlankTable

LEMMA GrantPinned ==
  ASSUME MmuAssumption, NEW k, NEW ds, NEW f, Spare(k, f), MemInv(k, ds, {f})
  PROVE  LET l == Grant(k, f, Pinned).ram
         IN /\ MemInv(l, ds \cup {f}, {}) /\ Keeps(k, l, ds)
            /\ l.dir[f] = NoTables /\ SameTables(k, l, ds) /\ BlanksStay(k, l, NULL)
<1> DEFINE l == Grant(k, f, Pinned).ram
           es == ds \cup {f}
<1>1. /\ f \in Frames /\ f \notin ds /\ f \notin Tables(k, ds)
      /\ \A a \in Entries : a[1] = f => k.pte[a] = 0
  BY ZenonT(60), SpareIsUnused DEF Blank, BlankTable
<1>2. /\ k \in Rams /\ Pinning(k, ds) /\ Trees(k, ds) /\ Pointers(k, ds) /\ Granted(k, {f})
      /\ Files(k, ds) /\ CleanPages(k) /\ ds \subseteq Frames /\ es \subseteq Frames
  BY <1>1 DEF MemInv, Trees
<1>3. /\ l \in Rams
      /\ \A g \in Frames :
           /\ l.owner[g] = IF g = f THEN Pinned ELSE k.owner[g]
           /\ l.dir[g] = IF g = f THEN NoTables ELSE k.dir[g]
           /\ l.data[g] = IF g = f THEN 0 ELSE k.data[g]
      /\ \A a \in Entries :
           /\ l.pte[a] = IF a[1] = f THEN 0 ELSE k.pte[a]
           /\ a \in l.dirty <=> a \in k.dirty /\ a[1] # f
      /\ l.swap = k.swap
  <2>1. Pinned \in Entries \cup {Pinned} /\ f \in Frames /\ k \in Rams
    BY <1>1, <1>2
  <2> QED
    BY <2>1, GrantFields
<1> HIDE DEF l
<1>4. /\ l.owner[f] = Pinned /\ l.dir[f] = NoTables
      /\ \A g \in Frames : g # f => /\ l.owner[g] = k.owner[g] /\ l.dir[g] = k.dir[g]
                                     /\ l.data[g] = k.data[g]
      /\ \A a \in Entries : l.pte[a] = k.pte[a] /\ l.swap[a] = k.swap[a]
  BY <1>1, <1>2, <1>3, RamTypes
<1>5. \A i \in Indexes : l.dir[f][i] = 0
  BY <1>4 DEF NoTables
<1>6. \A d \in ds, i \in Indexes : l.dir[d][i] = k.dir[d][i]
  BY <1>1, <1>2, <1>4
<1>7. Tables(l, es) = Tables(k, ds)
  <2>1. ASSUME NEW t \in Tables(l, es) PROVE t \in Tables(k, ds)
    BY <1>5, <1>6, <2>1 DEF Tables
  <2>2. ASSUME NEW t \in Tables(k, ds) PROVE t \in Tables(l, es)
    BY <1>6, <2>2 DEF Tables
  <2> QED
    BY <2>1, <2>2
<1>e. es = ds \cup {f}
  OBVIOUS
<1> HIDE DEF es
<1>8. Pinning(l, es)
  BY <1>2, <1>4, <1>7, <1>e DEF Pinning
<1>9. Trees(l, es)
  <2>1. es \cap Tables(l, es) = {}
    BY <1>1, <1>2, <1>7, <1>e DEF Trees
  <2>2. ASSUME NEW d \in es, NEW e \in es, NEW i \in Indexes, NEW j \in Indexes,
               l.dir[d][i] # 0, l.dir[d][i] = l.dir[e][j]
        PROVE  d = e /\ i = j
    <3>1. d \in ds /\ e \in ds
      BY <1>5, <1>e, <2>2
    <3> QED
      BY <1>2, <1>6, <2>2, <3>1 DEF Trees
  <2> QED
    BY <1>2, <2>1, <2>2 DEF Trees
<1>10. \A a \in Entries : k.pte[a] # 0 => k.pte[a] \in Frames /\ k.pte[a] # f /\ a[1] # f
  BY <1>1, <1>2, RamTypes DEF Spare, Frames, MmuAssumption
<1>11. Pointers(l, es)
  BY <1>2, <1>4, <1>7, <1>10 DEF Pointers
<1>12. Granted(l, {})
  BY <1>2, <1>4, Distinct DEF Granted
<1>13. Files(l, es)
  BY <1>2, <1>4, <1>7 DEF Files
<1>14. CleanPages(l)
  BY <1>2, <1>3, <1>4, <1>10 DEF CleanPages
<1>15. Keeps(k, l, ds)
  <2>1. \A a \in Entries : Held(l, a) = Held(k, a)
    BY <1>4, <1>10 DEF Held
  <2> QED
    BY <1>1, <1>2, <1>4, <2>1, KeepsByHeld
<1>16. BlanksStay(k, l, NULL)
  BY <1>4 DEF Blank, BlanksStay
<1>17. SameTables(k, l, ds)
  BY <1>1, <1>2, <1>4 DEF SameTables
<1>18. MemInv(l, es, {})
  BY <1>3, <1>8, <1>9, <1>11, <1>12, <1>13, <1>14 DEF MemInv
<1> QED
  BY <1>4, <1>15, <1>16, <1>17, <1>18 DEF l, es

(* Entry a gets frame f and what its swap file has. *)
LEMMA GrantPage ==
  ASSUME MmuAssumption, NEW k, NEW ds, NEW f, Spare(k, f), MemInv(k, ds, {f}),
         NEW a \in Entries, a[1] \in Tables(k, ds), k.pte[a] = 0
  PROVE  LET l == Present(Grant(k, f, a).ram, a, f)
             n == read_page_from_disk(l, a)
         IN /\ MemInv(n, ds, {}) /\ Keeps(k, n, ds) /\ n.pte[a] = f
            /\ BlanksStay(k, n, a)
            /\ Blank(k, a) => n = l
<1> DEFINE g == Grant(k, f, a).ram
           l == Present(g, a, f)
           n == read_page_from_disk(l, a)
<1>1. /\ f \in Frames /\ f \notin ds /\ f \notin Tables(k, ds) /\ f # 0 /\ f \in 0..NumFrames
      /\ \A b \in Entries : b[1] = f => k.pte[b] = 0
  <2>1. /\ f \in Frames /\ f \notin ds /\ f \notin Tables(k, ds)
        /\ \A b \in Entries : b[1] = f => k.pte[b] = 0
    BY ZenonT(60), SpareIsUnused DEF Blank, BlankTable
  <2> QED
    BY <2>1 DEF Frames, MmuAssumption
<1>2. /\ k \in Rams /\ Pinning(k, ds) /\ Trees(k, ds) /\ Pointers(k, ds) /\ Granted(k, {f})
      /\ Files(k, ds) /\ CleanPages(k) /\ ds \subseteq Frames
  BY <1>1 DEF MemInv, Trees
<1>3. /\ g \in Rams
      /\ \A h \in Frames :
           /\ g.owner[h] = IF h = f THEN a ELSE k.owner[h]
           /\ g.dir[h] = IF h = f THEN NoTables ELSE k.dir[h]
           /\ g.data[h] = IF h = f THEN 0 ELSE k.data[h]
      /\ \A b \in Entries :
           /\ g.pte[b] = IF b[1] = f THEN 0 ELSE k.pte[b]
           /\ b \in g.dirty <=> b \in k.dirty /\ b[1] # f
      /\ g.swap = k.swap
  <2>1. a \in Entries \cup {Pinned} /\ f \in Frames /\ k \in Rams
    BY <1>1, <1>2
  <2> QED
    BY <2>1, GrantFields
<1> HIDE DEF g
<1>4. /\ l \in Rams /\ l.owner = g.owner /\ l.dir = g.dir /\ l.data = g.data
      /\ l.pte = [g.pte EXCEPT ![a] = f] /\ l.dirty = g.dirty /\ l.swap = g.swap
  <2>1. g \in Rams
    BY <1>3
  <2> QED
    BY <1>1, <2>1 DEF Rams, Present
<1> HIDE DEF l
<1>5. l.pte[a] = f /\ \A b \in Entries : b # a => l.pte[b] = g.pte[b]
  BY <1>3, <1>4, RamTypes
<1>6. /\ n \in Rams /\ n.owner = l.owner /\ n.dir = l.dir /\ n.pte = l.pte /\ n.dirty = l.dirty
      /\ n.swap = l.swap
      /\ n.data = IF l.swap[a] # NoFile THEN [l.data EXCEPT ![f] = l.swap[a]] ELSE l.data
  <2>1. CASE l.swap[a] # NoFile
    <3>1. n = [l EXCEPT !.data[f] = l.swap[a]]
      BY <1>5, <2>1 DEF read_page_from_disk
    <3>2. l.swap[a] \in Values /\ l \in Rams
      BY <1>4, <2>1, RamTypes
    <3>3. [l EXCEPT !.data[f] = l.swap[a]] \in Rams
      BY <1>1, <3>2 DEF Rams
    <3>4. /\ n.owner = l.owner /\ n.dir = l.dir /\ n.pte = l.pte /\ n.dirty = l.dirty
          /\ n.swap = l.swap /\ n.data = [l.data EXCEPT ![f] = l.swap[a]]
      BY <3>1, <3>2 DEF Rams
    <3> QED
      BY <2>1, <3>1, <3>3, <3>4
  <2>2. CASE l.swap[a] = NoFile
    BY <1>4, <2>2 DEF read_page_from_disk
  <2> QED
    BY <2>1, <2>2
<1>7. l.swap[a] = NoFile => n = l
  BY DEF read_page_from_disk
<1> HIDE DEF n
<1>8. /\ n.owner[f] = a /\ n.dir[f] = NoTables /\ n.pte[a] = f
      /\ n.data[f] = IF k.swap[a] = NoFile THEN 0 ELSE k.swap[a]
      /\ \A h \in Frames : h # f => /\ n.owner[h] = k.owner[h] /\ n.dir[h] = k.dir[h]
                                     /\ n.data[h] = k.data[h]
      /\ \A b \in Entries : n.swap[b] = k.swap[b] /\ (b # a => n.pte[b] = k.pte[b])
  <2>1. l.data \in [Frames -> Values]
    BY <1>4, RamTypes
  <2>2. n.data[f] = IF k.swap[a] = NoFile THEN 0 ELSE k.swap[a]
    BY <1>1, <1>3, <1>4, <1>6, <2>1
  <2>3. \A h \in Frames : h # f => n.data[h] = k.data[h]
    BY <1>3, <1>4, <1>6, <2>1
  <2>4. \A b \in Entries : b # a => n.pte[b] = k.pte[b]
    BY <1>1, <1>3, <1>5, <1>6
  <2> QED
    BY <1>1, <1>3, <1>4, <1>5, <1>6, <2>2, <2>3, <2>4
<1>9. \A d \in ds : n.dir[d] = k.dir[d]
  BY <1>1, <1>2, <1>8
<1>10. Tables(n, ds) = Tables(k, ds)
  BY <1>9 DEF Tables
<1>11. Pinning(n, ds)
  BY <1>1, <1>2, <1>8, <1>10, Distinct DEF Pinning
<1>12. Trees(n, ds)
  BY <1>2, <1>9, <1>10 DEF Trees
<1>13. \A b \in Entries : b # a /\ n.pte[b] # 0 =>
         /\ k.pte[b] # 0 /\ k.pte[b] \in Frames /\ k.pte[b] # f /\ b[1] # f
         /\ n.pte[b] = k.pte[b] /\ n.data[n.pte[b]] = k.data[k.pte[b]]
  <2>1. \A b \in Entries : k.pte[b] # 0 => k.pte[b] \in Frames
    BY <1>2, RamTypes DEF Frames, MmuAssumption
  <2> QED
    BY ZenonT(60), <1>1, <1>8, <2>1 DEF Spare
<1>14. Pointers(n, ds)
  BY <1>2, <1>8, <1>10, <1>13 DEF Pointers
<1>15. Granted(n, {})
  BY <1>2, <1>8, Distinct DEF Granted
<1>16. Files(n, ds)
  BY <1>2, <1>8, <1>10 DEF Files
<1>17. CleanPages(n)
  <2>1. \A b \in Entries : b # a /\ n.pte[b] # 0 => (b \in n.dirty <=> b \in k.dirty)
    BY <1>3, <1>4, <1>6, <1>13
  <2> QED
    BY <1>2, <1>8, <1>13, <2>1 DEF CleanPages
<1>18. Keeps(k, n, ds)
  <2>1. \A b \in Entries : Held(n, b) = Held(k, b)
    BY <1>1, <1>8, <1>13 DEF Held
  <2> QED
    BY <1>2, <1>9, <2>1, KeepsByHeld
<1>19. BlanksStay(k, n, a)
  BY <1>8 DEF Blank, BlanksStay
<1>20. Blank(k, a) => n = l
  BY <1>3, <1>4, <1>7 DEF Blank
<1>21. MemInv(n, ds, {})
  BY <1>6, <1>11, <1>12, <1>14, <1>15, <1>16, <1>17 DEF MemInv
<1> QED
  BY <1>8, <1>18, <1>19, <1>20, <1>21 DEF n, l, g

(* The grant r comes from frame f, which memory e, as good as k, can spare. *)
GrantedFrom(k, ds, who, r, e, f) ==
  /\ r = Grant(e, f, who) /\ Spare(e, f) /\ MemInv(e, ds, {f})
  /\ Keeps(k, e, ds) /\ e.dir = k.dir /\ BlanksStay(k, e, NULL)
  /\ \A b \in Entries : k.pte[b] = 0 => e.pte[b] = 0

(* The frame that the kernel gives is a free one or that of a page it       *)
(* evicts.                                                                  *)
LEMMA Asked ==
  ASSUME MmuAssumption, NEW k, NEW ds, MemInv(k, ds, {}), NEW who,
         NEW r \in ask_kernel_for_frame(k, who)
  PROVE  \E e, f : GrantedFrom(k, ds, who, r, e, f)
<1>1. CASE FreeFrames(k) # {}
  <2> DEFINE f == Min(FreeFrames(k))
  <2>1. f \in FreeFrames(k)
    <3>1. FreeFrames(k) \subseteq Nat
      BY DEF FreeFrames, Frames, MmuAssumption
    <3> QED
      BY <1>1, <3>1, MinOfSet
  <2>2. r = Grant(k, f, who)
    BY <1>1 DEF ask_kernel_for_frame
  <2>3. Keeps(k, k, ds)
    BY DEF Keeps
  <2> HIDE DEF f
  <2>4. Spare(k, f) /\ MemInv(k, ds, {f})
    BY <2>1, FreeIsSpare
  <2> QED
    BY <2>2, <2>3, <2>4 DEF GrantedFrom, BlanksStay
<1>2. CASE FreeFrames(k) = {}
  <2>1. PICK f \in PageFrames(k) : r = Grant(Evict(k, f), f, who)
    BY <1>2 DEF ask_kernel_for_frame
  <2> DEFINE e == Evict(k, f)
  <2>2. /\ Spare(e, f) /\ MemInv(e, ds, {f}) /\ Keeps(k, e, ds)
        /\ BlanksStay(k, e, NULL)
    BY EvictedIsSpare
  <2>3. e.dir = k.dir /\ \A b \in Entries : k.pte[b] = 0 => e.pte[b] = 0
    <3>1. k \in Rams /\ f \in Frames /\ k.owner[f] \in Entries
      BY DEF MemInv, PageFrames
    <3>2. e.dir = k.dir /\ e.pte = [k.pte EXCEPT ![k.owner[f]] = 0]
      BY <3>1, EvictFields
    <3> QED
      BY <3>1, <3>2, RamTypes
  <2> QED
    BY <2>1, <2>2, <2>3 DEF GrantedFrom
<1> QED
  BY <1>1, <1>2

(* A frame for a directory or for a table: it points nowhere. *)
LEMMA AskPinned ==
  ASSUME MmuAssumption, NEW k, NEW ds, MemInv(k, ds, {}),
         NEW r \in ask_kernel_for_frame(k, Pinned)
  PROVE  /\ r.frame \in Frames /\ r.frame \notin ds /\ r.frame \notin Tables(k, ds)
         /\ MemInv(r.ram, ds \cup {r.frame}, {}) /\ Keeps(k, r.ram, ds)
         /\ r.ram.dir[r.frame] = NoTables /\ SameTables(k, r.ram, ds)
         /\ BlanksStay(k, r.ram, NULL) /\ BlankTable(r.ram, r.frame)
<1>0. PICK e, f : GrantedFrom(k, ds, Pinned, r, e, f)
  BY Asked
<1>1. /\ r = Grant(e, f, Pinned) /\ Spare(e, f) /\ MemInv(e, ds, {f})
      /\ Keeps(k, e, ds) /\ e.dir = k.dir /\ BlanksStay(k, e, NULL)
  BY <1>0 DEF GrantedFrom
<1>2. r.frame = f
  BY <1>1 DEF Grant
<1>3. /\ MemInv(r.ram, ds \cup {f}, {}) /\ Keeps(e, r.ram, ds)
      /\ r.ram.dir[f] = NoTables /\ SameTables(e, r.ram, ds) /\ BlanksStay(e, r.ram, NULL)
  BY <1>1, GrantPinned
<1>4. f \in Frames /\ f \notin ds /\ f \notin Tables(e, ds) /\ BlankTable(e, f)
  BY <1>1, SpareIsUnused
<1>5. Tables(e, ds) = Tables(k, ds)
  BY <1>1 DEF Tables
<1>6. Keeps(k, r.ram, ds)
  BY <1>1, <1>3, KeepsLasts
<1>7. NULL \notin Entries
  BY DEF MmuAssumption
<1>8. BlanksStay(k, r.ram, NULL) /\ BlankTable(r.ram, f) /\ SameTables(k, r.ram, ds)
  BY <1>1, <1>3, <1>4, <1>7 DEF BlanksStay, BlankTable, SameTables
<1> QED
  BY <1>2, <1>3, <1>4, <1>5, <1>6, <1>8

(* A frame for the page of entry a. *)
LEMMA AskPage ==
  ASSUME MmuAssumption, NEW k, NEW ds, MemInv(k, ds, {}),
         NEW a \in Entries, a[1] \in Tables(k, ds), k.pte[a] = 0,
         NEW r \in ask_kernel_for_frame(k, a)
  PROVE  LET l == Present(r.ram, a, r.frame)
             n == read_page_from_disk(l, a)
         IN /\ MemInv(n, ds, {}) /\ Keeps(k, n, ds)
            /\ n.pte[a] \in Frames
            /\ BlanksStay(k, n, a)
            /\ Blank(k, a) => n = l
<1>0. PICK e, f : GrantedFrom(k, ds, a, r, e, f)
  BY Asked
<1>1. /\ r = Grant(e, f, a) /\ Spare(e, f) /\ MemInv(e, ds, {f})
      /\ Keeps(k, e, ds) /\ e.dir = k.dir /\ BlanksStay(k, e, NULL)
      /\ \A b \in Entries : k.pte[b] = 0 => e.pte[b] = 0
  BY <1>0 DEF GrantedFrom
<1>2. r.frame = f /\ f \in Frames
  BY <1>1 DEF Grant, Spare
<1>3. Tables(e, ds) = Tables(k, ds)
  BY <1>1 DEF Tables
<1> DEFINE l == Present(r.ram, a, r.frame)
           n == read_page_from_disk(l, a)
<1>4. /\ MemInv(n, ds, {}) /\ Keeps(e, n, ds) /\ n.pte[a] = f
      /\ BlanksStay(e, n, a)
      /\ Blank(e, a) => n = l
  <2>1. a[1] \in Tables(e, ds) /\ e.pte[a] = 0
    BY <1>1, <1>3
  <2> QED
    BY <1>1, <1>2, <2>1, GrantPage
<1> HIDE DEF n
<1>5. Keeps(k, n, ds)
  BY <1>1, <1>4, KeepsLasts
<1>6. BlanksStay(k, n, a)
  BY <1>1, <1>4 DEF BlanksStay, MmuAssumption
<1>7. Blank(k, a) => Blank(e, a)
  BY <1>1 DEF BlanksStay, MmuAssumption
<1> QED
  BY <1>2, <1>4, <1>5, <1>6, <1>7 DEF n

(***************************************************************************)
(* The page tables                                                         *)
(***************************************************************************)
(* A new frame f becomes table i of directory d. *)
LEMMA Adopt ==
  ASSUME MmuAssumption, NEW k, NEW ds, NEW f \in Frames, f \notin ds, MemInv(k, ds \cup {f}, {}),
         k.dir[f] = NoTables, BlankTable(k, f),
         NEW d \in ds, NEW i \in Indexes, k.dir[d][i] = 0
  PROVE  LET l == [k EXCEPT !.dir[d][i] = f]
         IN /\ MemInv(l, ds, {}) /\ Keeps(k, l, ds) /\ l.dir[d][i] = f
            /\ \A b : Blank(k, b) => Blank(l, b)
<1> DEFINE l == [k EXCEPT !.dir[d][i] = f]
           es == ds \cup {f}
<1>1. /\ k \in Rams /\ Pinning(k, es) /\ Trees(k, es) /\ Pointers(k, es) /\ Granted(k, {})
      /\ Files(k, es) /\ CleanPages(k) /\ es \subseteq Frames /\ es \cap Tables(k, es) = {}
      /\ ds \subseteq Frames /\ d \in Frames
  BY DEF MemInv, Trees
<1>2. f # 0 /\ f \in 0..NumFrames
  BY DEF Frames, MmuAssumption
<1>3. /\ l \in Rams /\ l.owner = k.owner /\ l.data = k.data /\ l.pte = k.pte
      /\ l.dirty = k.dirty /\ l.swap = k.swap /\ l.dir = [k.dir EXCEPT ![d][i] = f]
  <2>1. k \in Rams
    BY <1>1
  <2>2. l \in Rams
    BY <1>1, <1>2, <2>1 DEF Rams
  <2> QED
    BY <2>1, <2>2 DEF Rams
<1> HIDE DEF l
<1>4. /\ l.dir[d][i] = f
      /\ \A e \in ds, j \in Indexes : ~(e = d /\ j = i) => l.dir[e][j] = k.dir[e][j]
  BY <1>1, <1>3, RamTypes
<1>5. \A j \in Indexes : k.dir[f][j] = 0
  BY DEF NoTables
<1>6. /\ \A t : t \in Tables(l, ds) <=> t \in Tables(k, es) \cup {f}
      /\ f \notin Tables(k, es)
  <2>1. ASSUME NEW t \in Tables(l, ds), t # f PROVE t \in Tables(k, es)
    BY <1>4, <2>1 DEF Tables
  <2>2. ASSUME NEW t \in Tables(k, es) PROVE t \in Tables(l, ds)
    <3>1. PICK e \in es, j \in Indexes : k.dir[e][j] = t /\ t # 0
      BY <2>2 DEF Tables
    <3>2. e \in ds /\ l.dir[e][j] = t
      BY <1>4, <1>5, <3>1
    <3> QED
      BY <3>1, <3>2 DEF Tables
  <2>3. f \in Tables(l, ds)
    BY <1>2, <1>4 DEF Tables
  <2> QED
    BY <1>1, <2>1, <2>2, <2>3
<1>e. es = ds \cup {f}
  OBVIOUS
<1> HIDE DEF es
<1>7. Pinning(l, ds)
  BY <1>1, <1>3, <1>6, <1>e DEF Pinning
<1>8. Trees(l, ds)
  <2>1. ds \cap Tables(l, ds) = {}
    <3> SUFFICES ASSUME NEW t \in ds, t \in Tables(l, ds) PROVE FALSE
      OBVIOUS
    <3>1. t \in Tables(k, es) /\ t \in es
      BY <1>6, <1>e
    <3> QED
      BY <1>1, <3>1
  <2>2. ASSUME NEW e \in ds, NEW g \in ds, NEW j \in Indexes, NEW m \in Indexes,
               l.dir[e][j] # 0, l.dir[e][j] = l.dir[g][m]
        PROVE  e = g /\ j = m
    <3>1. \A h \in ds, n \in Indexes : ~(h = d /\ n = i) => l.dir[h][n] # f
      <4>1. \A h \in ds, n \in Indexes : k.dir[h][n] # 0 => k.dir[h][n] \in Tables(k, es)
        BY <1>e DEF Tables
      <4> QED
        BY <1>2, <1>4, <1>6, <4>1
    <3>2. CASE e = d /\ j = i
      BY <1>4, <2>2, <3>1, <3>2
    <3>3. CASE g = d /\ m = i
      BY <1>4, <2>2, <3>1, <3>3
    <3>4. CASE ~(e = d /\ j = i) /\ ~(g = d /\ m = i)
      BY <1>1, <1>4, <1>e, <2>2, <3>4 DEF Trees
    <3> QED
      BY <3>2, <3>3, <3>4
  <2> QED
    BY <1>1, <2>1, <2>2 DEF Trees
<1>9. Pointers(l, ds) /\ Granted(l, {}) /\ Files(l, ds) /\ CleanPages(l)
  BY <1>1, <1>3, <1>6 DEF Pointers, Granted, Files, CleanPages
<1>10. Keeps(k, l, ds)
  <2>1. \A a \in Entries : Held(l, a) = Held(k, a)
    BY <1>3 DEF Held
  <2> SUFFICES ASSUME NEW e \in ds, NEW j \in Indexes
               PROVE  /\ k.dir[e][j] # 0 => l.dir[e][j] = k.dir[e][j]
                      /\ \A m \in Indexes : View(l, e, j, m) = View(k, e, j, m)
    BY DEF Keeps
  <2>2. CASE e = d /\ j = i
    <3>1. ASSUME NEW m \in Indexes PROVE Held(l, <<f, m>>) = 0
      <4>1. <<f, m>> \in Entries /\ <<f, m>>[1] = f
        BY SMTT(40) DEF Entries
      <4> QED
        BY <1>3, <4>1 DEF Held, Blank, BlankTable
    <3> QED
      BY <1>2, <1>4, <2>2, <3>1 DEF View
  <2>3. CASE ~(e = d /\ j = i)
    <3>1. l.dir[e][j] = k.dir[e][j]
      BY <1>4, <2>3
    <3> QED
      BY <1>3, <3>1 DEF View, Held
  <2> QED
    BY <2>2, <2>3
<1>11. \A b : Blank(k, b) => Blank(l, b)
  BY <1>3 DEF Blank
<1>12. MemInv(l, ds, {})
  BY <1>3, <1>7, <1>8, <1>9 DEF MemInv
<1> QED
  BY <1>4, <1>10, <1>11, <1>12 DEF l

(* The page table for i in directory d is there afterwards. *)
LEMMA TableIsThere ==
  ASSUME MmuAssumption, NEW k, NEW ds, MemInv(k, ds, {}), NEW d \in ds, NEW i \in Indexes,
         NEW r \in TableOf(k, d, i)
  PROVE  /\ MemInv(r.ram, ds, {}) /\ Keeps(k, r.ram, ds)
         /\ r.ram.dir[d][i] = r.frame /\ r.frame # 0
<1>1. CASE k.dir[d][i] # 0
  <2>1. r = [frame |-> k.dir[d][i], ram |-> k]
    BY <1>1 DEF TableOf
  <2>2. Keeps(k, k, ds)
    BY DEF Keeps
  <2> QED
    BY <1>1, <2>1, <2>2
<1>2. CASE k.dir[d][i] = 0
  <2>1. PICK n \in ask_kernel_for_frame(k, Pinned) :
          r = [frame |-> n.frame, ram |-> [n.ram EXCEPT !.dir[d][i] = n.frame]]
    BY <1>2 DEF TableOf
  <2>2. /\ n.frame \in Frames /\ n.frame \notin ds
        /\ MemInv(n.ram, ds \cup {n.frame}, {}) /\ Keeps(k, n.ram, ds)
        /\ n.ram.dir[n.frame] = NoTables /\ SameTables(k, n.ram, ds)
        /\ BlankTable(n.ram, n.frame)
    BY AskPinned
  <2>3. n.ram.dir[d][i] = 0
    BY <1>2, <2>2 DEF SameTables
  <2> DEFINE l == [n.ram EXCEPT !.dir[d][i] = n.frame]
  <2>4. MemInv(l, ds, {}) /\ Keeps(n.ram, l, ds) /\ l.dir[d][i] = n.frame
    BY <2>2, <2>3, Adopt
  <2>5. r.frame = n.frame /\ r.ram = l
    BY <2>1
  <2> HIDE DEF l
  <2>6. Keeps(k, l, ds)
    BY <2>2, <2>4, KeepsLasts
  <2> QED
    BY <2>2, <2>4, <2>5, <2>6, Distinct
<1> QED
  BY <1>1, <1>2

(* The page of entry a is in memory afterwards. *)
LEMMA PageIsThere ==
  ASSUME MmuAssumption, NEW k, NEW ds, MemInv(k, ds, {}),
         NEW a \in Entries, a[1] \in Tables(k, ds), NEW n \in PageIn(k, a)
  PROVE  MemInv(n, ds, {}) /\ Keeps(k, n, ds) /\ n.pte[a] \in Frames
<1>1. CASE k.pte[a] # 0
  <2>1. n = k
    BY <1>1 DEF PageIn
  <2>2. Keeps(k, k, ds)
    BY DEF Keeps
  <2>3. k.pte[a] \in 0..NumFrames
    BY RamTypes DEF MemInv
  <2> QED
    BY <1>1, <2>1, <2>2, <2>3 DEF Frames, MmuAssumption
<1>2. CASE k.pte[a] = 0
  <2>1. PICK r \in ask_kernel_for_frame(k, a) : n = read_page_from_disk(Present(r.ram, a, r.frame), a)
    BY <1>2 DEF PageIn
  <2> QED
    BY <1>2, <2>1, AskPage
<1> QED
  BY <1>1, <1>2

(* Page a of a process is written. *)
LEMMA Written ==
  ASSUME MmuAssumption, NEW k, NEW ds, MemInv(k, ds, {}),
         NEW a \in Entries, k.pte[a] \in Frames, NEW v \in Values
  PROVE  LET l == [k EXCEPT !.dirty = MarkDirty(k, a), !.data[k.pte[a]] = v]
         IN /\ MemInv(l, ds, {}) /\ l.dir = k.dir
            /\ \A b \in Entries : Held(l, b) = IF b = a THEN v ELSE Held(k, b)
<1> DEFINE l == [k EXCEPT !.dirty = MarkDirty(k, a), !.data[k.pte[a]] = v]
<1>1. /\ k \in Rams /\ Pinning(k, ds) /\ Trees(k, ds) /\ Pointers(k, ds) /\ Granted(k, {})
      /\ Files(k, ds) /\ CleanPages(k)
  BY DEF MemInv
<1>2. /\ l \in Rams /\ l.owner = k.owner /\ l.pte = k.pte /\ l.dir = k.dir /\ l.swap = k.swap
      /\ l.dirty = k.dirty \cup {a} /\ l.data = [k.data EXCEPT ![k.pte[a]] = v]
  <2>1. k \in Rams
    BY <1>1
  <2>2. l \in Rams
    BY <2>1 DEF Rams, MarkDirty
  <2> QED
    BY <2>1, <2>2 DEF Rams, MarkDirty
<1> HIDE DEF l
<1>3. l.data[k.pte[a]] = v /\ \A f \in Frames : f # k.pte[a] => l.data[f] = k.data[f]
  BY <1>1, <1>2, RamTypes
<1>4. /\ k.pte[a] # 0
      /\ \A b \in Entries : k.pte[b] # 0 /\ b # a => k.pte[b] \in Frames /\ k.pte[b] # k.pte[a]
  <2>1. k.pte[a] # 0
    BY Distinct
  <2>2. \A b \in Entries : k.pte[b] \in 0..NumFrames
    BY <1>1, RamTypes
  <2> QED
    BY <1>1, <2>1, <2>2 DEF Pointers, Frames, MmuAssumption
<1>5. Tables(l, ds) = Tables(k, ds)
  BY <1>2 DEF Tables
<1>6. Pinning(l, ds) /\ Trees(l, ds) /\ Pointers(l, ds) /\ Granted(l, {}) /\ Files(l, ds)
  BY <1>1, <1>2, <1>5 DEF Pinning, Trees, Pointers, Granted, Files
<1>7. CleanPages(l)
  BY <1>1, <1>2, <1>3, <1>4 DEF CleanPages
<1>8. ASSUME NEW b \in Entries PROVE Held(l, b) = IF b = a THEN v ELSE Held(k, b)
  BY <1>2, <1>3, <1>4 DEF Held
<1> QED
  BY <1>2, <1>6, <1>7, <1>8 DEF MemInv, l

(* The processes with directories es go. *)
LEMMA ReleasedIsSound ==
  ASSUME MmuAssumption, NEW k, NEW ds, MemInv(k, ds, {}), NEW es, es \subseteq ds
  PROVE  LET l == Released(k, es)
         IN MemInv(l, ds \ es, {}) /\ Keeps(k, l, ds \ es)
<1> DEFINE tables == Tables(k, es)
           fs == Pages(k, es) \cup tables \cup es
           as == EntriesOf(k, es)
           c == Clear(k, fs)
           l == Released(k, es)
           rs == ds \ es
<1>1. /\ k \in Rams /\ Pinning(k, ds) /\ Trees(k, ds) /\ Pointers(k, ds) /\ Granted(k, {})
      /\ Files(k, ds) /\ CleanPages(k) /\ ds \subseteq Frames /\ ds \cap Tables(k, ds) = {}
  BY DEF MemInv, Trees
<1>2. l = [c EXCEPT !.swap = [a \in Entries |-> IF a \in as THEN NoFile ELSE @[a]]]
  BY DEF Released, remove_swap_files, return_frames_to_kernel
<1>3. /\ c \in Rams
      /\ c.owner = [f \in Frames |-> IF f \in fs THEN Free ELSE k.owner[f]]
      /\ c.dir = [f \in Frames |-> IF f \in fs THEN NoTables ELSE k.dir[f]]
      /\ c.data = [f \in Frames |-> IF f \in fs THEN 0 ELSE k.data[f]]
      /\ c.pte = [a \in Entries |-> IF a[1] \in fs THEN 0 ELSE k.pte[a]]
      /\ c.dirty = {a \in k.dirty : a[1] \notin fs}
      /\ c.swap = k.swap
  BY <1>1, ClearFields
<1> HIDE DEF c, l
<1>4. /\ l \in Rams /\ l.owner = c.owner /\ l.dir = c.dir /\ l.data = c.data /\ l.pte = c.pte
      /\ l.dirty = c.dirty
      /\ l.swap = [a \in Entries |-> IF a \in as THEN NoFile ELSE c.swap[a]]
  <2>1. c \in Rams
    BY <1>3
  <2>2. l \in Rams
    BY <1>2, <2>1 DEF Rams
  <2> HIDE DEF as
  <2> QED
    BY <1>2, <2>1, <2>2 DEF Rams
<1>5. /\ \A f \in Frames : /\ l.owner[f] = IF f \in fs THEN Free ELSE k.owner[f]
                           /\ l.dir[f] = IF f \in fs THEN NoTables ELSE k.dir[f]
                           /\ l.data[f] = IF f \in fs THEN 0 ELSE k.data[f]
      /\ \A a \in Entries : /\ l.pte[a] = IF a[1] \in fs THEN 0 ELSE k.pte[a]
                            /\ a \in l.dirty <=> a \in k.dirty /\ a[1] \notin fs
                            /\ l.swap[a] = IF a \in as THEN NoFile ELSE k.swap[a]
  <2> HIDE DEF fs, as
  <2> QED
    BY <1>3, <1>4
<1>6. /\ Tables(k, ds) = tables \cup Tables(k, rs) /\ tables \cap Tables(k, rs) = {}
      /\ Tables(k, ds) \subseteq Frames
  <2>1. Tables(k, ds) = tables \cup Tables(k, rs)
    BY DEF Tables
  <2>2. tables \cap Tables(k, rs) = {}
    BY <1>1 DEF Tables, Trees
  <2> QED
    BY <1>1, <2>1, <2>2, TablesAre
<1>7. \A f \in Pages(k, es) : k.owner[f] \in as /\ k.owner[f][1] \in tables /\ k.owner[f] \in Entries
  <2> SUFFICES ASSUME NEW f \in Pages(k, es)
               PROVE  k.owner[f] \in as /\ k.owner[f][1] \in tables /\ k.owner[f] \in Entries
    OBVIOUS
  <2>1. PICK a \in as : f = k.pte[a] /\ f # 0
    BY DEF Pages
  <2>2. a \in Entries /\ a[1] \in tables
    BY <1>1, <1>6 DEF EntriesOf, Entries
  <2> QED
    BY <1>1, <2>1, <2>2 DEF Pointers
<1>8. \A f \in ds \cup Tables(k, ds) : f \in fs <=> f \in tables \cup es
  <2>1. \A f \in ds \cup Tables(k, ds) : f \in Frames /\ k.owner[f] = Pinned
    BY <1>1, <1>6 DEF Pinning
  <2> QED
    BY <1>7, <2>1, Distinct
<1>9. \A d \in rs : d \notin fs /\ d \in Frames /\ l.dir[d] = k.dir[d]
  <2>1. \A d \in rs : d \in ds /\ d \notin es /\ d \notin tables
    BY <1>1, <1>6
  <2> QED
    BY <1>1, <1>5, <1>8, <2>1
<1>10. Tables(l, rs) = Tables(k, rs)
  BY <1>9 DEF Tables
<1>11. \A t \in Tables(k, rs) : t \notin fs
  <2>1. \A t \in Tables(k, rs) : t \in Tables(k, ds) /\ t \notin tables /\ t \notin es
    BY <1>1, <1>6
  <2> QED
    BY <1>8, <2>1
<1>12. \A a \in Entries : a[1] \in Tables(k, rs) =>
         /\ l.pte[a] = k.pte[a] /\ l.swap[a] = k.swap[a] /\ (a \in l.dirty <=> a \in k.dirty)
         /\ k.pte[a] # 0 => /\ k.pte[a] \in Frames /\ k.pte[a] \notin fs
                            /\ l.data[k.pte[a]] = k.data[k.pte[a]]
                            /\ l.owner[k.pte[a]] = a
  <2> SUFFICES ASSUME NEW a \in Entries, a[1] \in Tables(k, rs)
               PROVE  /\ l.pte[a] = k.pte[a] /\ l.swap[a] = k.swap[a]
                      /\ (a \in l.dirty <=> a \in k.dirty)
                      /\ k.pte[a] # 0 => /\ k.pte[a] \in Frames /\ k.pte[a] \notin fs
                                         /\ l.data[k.pte[a]] = k.data[k.pte[a]]
                                         /\ l.owner[k.pte[a]] = a
    OBVIOUS
  <2>1. a[1] \notin fs /\ a[1] \notin tables
    BY <1>6, <1>11
  <2>2. a \notin as
    BY <2>1 DEF EntriesOf
  <2>3. ASSUME k.pte[a] # 0
        PROVE  k.pte[a] \in Frames /\ k.pte[a] \notin fs /\ k.owner[k.pte[a]] = a
    <3>1. k.pte[a] \in Frames /\ k.owner[k.pte[a]] = a
      BY <1>1, <2>3, RamTypes DEF Pointers, Frames, MmuAssumption
    <3>2. k.pte[a] \notin ds \cup Tables(k, ds)
      BY <1>1, <3>1, Distinct DEF Pinning
    <3>3. k.pte[a] \notin Pages(k, es)
      BY <1>7, <2>1, <3>1
    <3> QED
      BY <1>6, <3>1, <3>2, <3>3
  <2> QED
    BY <1>5, <2>1, <2>2, <2>3
<1> HIDE DEF rs, fs, as, tables
<1>13. \A a \in Entries : l.pte[a] # 0 => k.pte[a] # 0 /\ a[1] \in Tables(k, rs)
  <2> SUFFICES ASSUME NEW a \in Entries, l.pte[a] # 0
               PROVE  k.pte[a] # 0 /\ a[1] \in Tables(k, rs)
    OBVIOUS
  <2>1. k.pte[a] # 0 /\ a[1] \notin fs
    BY <1>5
  <2>2. a[1] \in Tables(k, ds) /\ a[1] \notin tables
    BY <1>1, <2>1 DEF Pointers, fs
  <2> QED
    BY <1>6, <2>1, <2>2
<1>14. Pinning(l, rs)
  <2> SUFFICES ASSUME NEW f \in Frames PROVE l.owner[f] = Pinned <=> f \in rs \cup Tables(k, rs)
    BY <1>10 DEF Pinning
  <2>1. CASE f \in fs
    BY <1>5, <1>9, <1>11, <2>1, Distinct
  <2>2. CASE f \notin fs
    <3>1. l.owner[f] = k.owner[f] /\ f \notin es /\ f \notin tables
      BY <1>5, <2>2 DEF fs
    <3>2. k.owner[f] = Pinned <=> f \in ds \cup Tables(k, ds)
      BY <1>1 DEF Pinning
    <3> QED
      BY <1>6, <3>1, <3>2 DEF rs
  <2> QED
    BY <2>1, <2>2
<1>15. Trees(l, rs)
  <2>1. rs \subseteq Frames /\ rs \subseteq ds
    BY <1>1 DEF rs
  <2>2. rs \cap Tables(l, rs) = {}
    BY <1>1, <1>6, <1>10, <2>1
  <2>3. \A d, e \in rs, i, j \in Indexes :
          l.dir[d][i] # 0 /\ l.dir[d][i] = l.dir[e][j] => d = e /\ i = j
    BY <1>1, <1>9, <2>1 DEF Trees
  <2> QED
    BY <2>1, <2>2, <2>3 DEF Trees
<1>16. Pointers(l, rs)
  BY <1>10, <1>12, <1>13 DEF Pointers
<1>17. Granted(l, {})
  <2> SUFFICES ASSUME NEW f \in Frames, l.owner[f] \in Entries PROVE l.pte[l.owner[f]] = f
    BY DEF Granted
  <2>1. f \notin fs /\ l.owner[f] = k.owner[f]
    BY <1>5, Distinct
  <2>2. k.pte[k.owner[f]] = f /\ k.owner[f] \in Entries /\ f # 0
    BY <1>1, <2>1, Distinct DEF Granted
  <2>3. k.owner[f][1] \in Tables(k, ds)
    BY <1>1, <2>2 DEF Pointers
  <2>4. k.owner[f][1] \notin tables
    <3> SUFFICES ASSUME k.owner[f][1] \in tables PROVE f \in Pages(k, es)
      BY <2>1 DEF fs
    <3>1. k.owner[f] \in EntriesOf(k, es)
      BY <2>2 DEF EntriesOf, Entries, tables
    <3> QED
      BY <2>2, <3>1 DEF Pages
  <2> QED
    BY <1>6, <1>12, <2>1, <2>2, <2>3, <2>4
<1>18. Files(l, rs)
  <2> SUFFICES ASSUME NEW a \in Entries, l.swap[a] # NoFile PROVE a[1] \in Tables(k, rs)
    BY <1>10 DEF Files
  <2>1. k.swap[a] # NoFile /\ a \notin as
    BY <1>5
  <2>2. a[1] \in Tables(k, ds) /\ a[1] \notin tables
    BY <1>1, <2>1 DEF Files, as, EntriesOf, Entries, tables
  <2> QED
    BY <1>6, <2>2
<1>19. CleanPages(l)
  BY <1>1, <1>12, <1>13 DEF CleanPages
<1>20. Keeps(k, l, rs)
  <2>1. \A a \in Entries : a[1] \in Tables(k, rs) => Held(l, a) = Held(k, a)
    BY <1>12 DEF Held
  <2>2. rs \subseteq Frames
    BY <1>9
  <2> QED
    BY <1>1, <1>9, <2>1, <2>2, KeepsByHeld
<1> QED
  BY <1>4, <1>14, <1>15, <1>16, <1>17, <1>18, <1>19, <1>20 DEF MemInv, l, rs

(***************************************************************************)
(* The memory management unit                                              *)
(***************************************************************************)
(* The inductive invariant: processes have directories of their own, and    *)
(* the memory is sound.                                                     *)
MmuInv ==
  /\ page_directories \in [Pids -> Frames \cup {NULL}] /\ curr_pid \in Pids
  /\ \A p, q \in Pids :
       page_directories[p] # NULL /\ page_directories[p] = page_directories[q] => p = q
  /\ tlb \in [Mapped -> Entries \cup {NULL}]
  /\ TlbSound
  /\ MemInv(ram, Directories, {})

LEMMA MappedPages ==
  /\ \A g \in Mapped : g[1] \in Indexes /\ g[2] \in Indexes /\ g = <<g[1], g[2]>>
  /\ IsFiniteSet(Mapped) /\ Abstract!Mapped = Mapped
<1>1. \A g \in Mapped : g[1] \in Indexes /\ g[2] \in Indexes /\ g = <<g[1], g[2]>>
  BY DEF Mapped, Writable, TEXT, DATA, TESTING, Indexes
<1>2. IsFiniteSet(Mapped)
  <2>1. Mapped = (({<<0, 1>>} \cup {<<0, 2>>}) \cup {<<1, 2>>}) \cup {<<1, 1>>}
    BY DEF Mapped, Writable, TEXT, DATA, TESTING
  <2> QED
    BY <2>1, FS_Singleton, FS_Union
<1>3. Abstract!Mapped = Mapped
  BY DEF Abstract!Mapped, Mapped
<1> QED
  BY <1>1, <1>2, <1>3

(* A TLB that takes an entry has it, others that it had, and no more than   *)
(* TlbSize.                                                                 *)
LEMMA TlbTakes ==
  ASSUME MmuAssumption, NEW t \in [Mapped -> Entries \cup {NULL}], Cardinality(Cached(t)) <= TlbSize,
         NEW g \in Mapped, NEW a \in Entries, tlb_add_pte(t, g, a)
  PROVE  /\ tlb' \in [Mapped -> Entries \cup {NULL}] /\ Cardinality(Cached(tlb')) <= TlbSize
         /\ \A h \in Cached(tlb') : \/ h = g /\ tlb'[h] = a
                                    \/ h \in Cached(t) /\ tlb'[h] = t[h]
<1>1. /\ IsFiniteSet(Cached(t)) /\ Cardinality(Cached(t)) \in Nat /\ TlbSize \in Nat \ {0}
      /\ NULL \notin Entries
  <2>1. Cached(t) \in SUBSET Mapped
    BY DEF Cached
  <2> QED
    BY <2>1, MappedPages, FS_Subset, FS_CardinalityType DEF MmuAssumption
<1>2. CASE /\ g \in Cached(t) \/ Cardinality(Cached(t)) < TlbSize
           /\ tlb' = [t EXCEPT ![g] = a]
  <2>1. Cached(tlb') = Cached(t) \cup {g}
    BY <1>1, <1>2 DEF Cached
  <2>2. Cardinality(Cached(t) \cup {g})
          = IF g \in Cached(t) THEN Cardinality(Cached(t)) ELSE Cardinality(Cached(t)) + 1
    BY <1>1, FS_AddElement
  <2>3. Cardinality(Cached(tlb')) <= TlbSize
    <3>1. CASE g \in Cached(t)
      BY <1>1, <2>1, <2>2, <3>1
    <3>2. CASE g \notin Cached(t)
      <4>1. Cardinality(Cached(t)) < TlbSize
        BY <1>2, <3>2
      <4>2. Cardinality(Cached(tlb')) = Cardinality(Cached(t)) + 1
        BY <2>1, <2>2, <3>2
      <4> QED
        BY <1>1, <4>1, <4>2
    <3> QED
      BY <3>1, <3>2
  <2>4. \A h \in Cached(tlb') : \/ h = g /\ tlb'[h] = a
                                \/ h \in Cached(t) /\ tlb'[h] = t[h]
    BY <1>2, <2>1 DEF Cached
  <2> QED
    BY <1>2, <2>3, <2>4
<1>3. CASE /\ g \notin Cached(t)
           /\ \E h \in Cached(t) : tlb' = [t EXCEPT ![h] = NULL, ![g] = a]
  <2>1. PICK h \in Cached(t) : tlb' = [t EXCEPT ![h] = NULL, ![g] = a]
    BY <1>3
  <2>2. h # g /\ h \in Mapped
    BY <1>3 DEF Cached
  <2>3. Cached(tlb') = (Cached(t) \ {h}) \cup {g}
    BY <1>1, <2>1, <2>2 DEF Cached
  <2>4. IsFiniteSet(Cached(t) \ {h}) /\ Cardinality(Cached(t) \ {h}) = Cardinality(Cached(t)) - 1
    BY <1>1, FS_RemoveElement
  <2> DEFINE rest == Cached(t) \ {h}
  <2>5. g \notin rest /\ IsFiniteSet(rest)
    BY <1>3, <2>4
  <2>6. Cardinality(rest \cup {g}) = Cardinality(rest) + 1
    <3> HIDE DEF rest
    <3> QED
      BY <2>5, FS_AddElement
  <2>7. Cardinality(Cached(tlb')) <= TlbSize
    BY <1>1, <2>3, <2>4, <2>6
  <2>8. tlb' \in [Mapped -> Entries \cup {NULL}]
    BY <2>1
  <2>9. \A i \in Cached(tlb') : \/ i = g /\ tlb'[i] = a
                                \/ i \in Cached(t) /\ tlb'[i] = t[i]
    BY <2>1, <2>2, <2>3 DEF Cached
  <2> QED
    BY <2>7, <2>8, <2>9
<1> QED
  BY <1>2, <1>3 DEF tlb_add_pte

(* What get_table_entry finds, whatever the kernel had to evict for it. *)
LEMMA EntryFound ==
  ASSUME MmuAssumption, MmuInv, NEW p \in Pids, page_directories[p] # NULL, NEW g \in Mapped,
         NEW r \in get_table_entry(p, g)
  PROVE  LET d == page_directories[p]
         IN /\ MemInv(r.ram, Directories, {}) /\ Keeps(ram, r.ram, Directories)
            /\ r.ram.dir[d][g[1]] # 0 /\ r.entry = <<r.ram.dir[d][g[1]], g[2]>>
            /\ r.entry \in Entries /\ r.ram.pte[r.entry] \in Frames
<1> DEFINE d == page_directories[p]
<1>1. /\ d \in Directories /\ d \in Frames /\ MemInv(ram, Directories, {})
      /\ g[1] \in Indexes /\ g[2] \in Indexes
  BY MappedPages DEF MmuInv, Directories
<1>2. PICK l \in Lookup(ram, SwitchTo(p), d, g) :
        \E k \in PageIn(l.ram, l.entry) : r = [entry |-> l.entry, ram |-> k]
  BY DEF get_table_entry
<1>3. PICK k \in PageIn(l.ram, l.entry) : r = [entry |-> l.entry, ram |-> k]
  BY <1>2
<1>4. /\ MemInv(l.ram, Directories, {}) /\ Keeps(ram, l.ram, Directories)
      /\ l.ram.dir[d][g[1]] # 0 /\ l.entry = <<l.ram.dir[d][g[1]], g[2]>>
  <2>1. CASE g \in Cached(SwitchTo(p))
    <3>1. l = [entry |-> SwitchTo(p)[g], ram |-> ram]
      BY <2>1 DEF Lookup
    <3>2. SwitchTo(p) = tlb /\ curr_pid = p
      BY <2>1 DEF SwitchTo, Cached, NoEntries
    <3>3. tlb[g] = EntryOf(p, g) /\ tlb[g] # NULL
      BY <2>1, <3>2 DEF MmuInv, TlbSound, Cached
    <3>4. ram.dir[d][g[1]] # 0 /\ tlb[g] = <<ram.dir[d][g[1]], g[2]>>
      BY <3>3 DEF EntryOf
    <3>5. Keeps(ram, ram, Directories)
      BY DEF Keeps
    <3> QED
      BY <1>1, <3>1, <3>2, <3>4, <3>5
  <2>2. CASE g \notin Cached(SwitchTo(p))
    <3>1. PICK n \in TableOf(ram, d, g[1]) : l = [entry |-> <<n.frame, g[2]>>, ram |-> n.ram]
      BY <2>2 DEF Lookup
    <3>2. /\ MemInv(n.ram, Directories, {}) /\ Keeps(ram, n.ram, Directories)
          /\ n.ram.dir[d][g[1]] = n.frame /\ n.frame # 0
      BY <1>1, TableIsThere
    <3> QED
      BY <3>1, <3>2
  <2> QED
    BY <2>1, <2>2
<1>5. l.entry \in Entries /\ l.entry[1] \in Tables(l.ram, Directories)
  <2>1. l.ram \in Rams /\ Directories \subseteq Frames
    BY <1>4 DEF MemInv, Trees
  <2>2. l.ram.dir[d][g[1]] \in Tables(l.ram, Directories) /\ l.ram.dir[d][g[1]] \in Frames
    BY <1>1, <1>4, <2>1, TableIs
  <2> QED
    BY <1>1, <1>4, <2>2 DEF Entries
<1>6. MemInv(k, Directories, {}) /\ Keeps(l.ram, k, Directories) /\ k.pte[l.entry] \in Frames
  BY <1>4, <1>5, PageIsThere
<1>7. k.dir[d][g[1]] = l.ram.dir[d][g[1]]
  BY <1>1, <1>4, <1>6 DEF Keeps
<1>8. Keeps(ram, k, Directories)
  BY <1>4, <1>6, KeepsLasts
<1> QED
  BY <1>3, <1>4, <1>5, <1>6, <1>7, <1>8

(* What each process sees, by directory. *)
Seen(k, d) == [g \in Mapped |-> View(k, d, g[1], g[2])]

(* The private memories that the tables stand for. *)
Memory ==
  [p \in Pids |-> IF page_directories[p] = NULL THEN NULL
                  ELSE [g \in Mapped |-> Contents(EntryOf(p, g))]]

MemoryOf(pd, k) == [p \in Pids |-> IF pd[p] = NULL THEN NULL ELSE Seen(k, pd[p])]

MemoryAgrees == Memory = MemoryOf(page_directories, ram)

LEMMA MemoryIs == MmuAssumption /\ MmuInv => MemoryAgrees
<1> SUFFICES ASSUME MmuAssumption, MmuInv PROVE MemoryAgrees
  OBVIOUS
<1>1. ASSUME NEW p \in Pids, page_directories[p] # NULL, NEW g \in Mapped
      PROVE  Contents(EntryOf(p, g)) = View(ram, page_directories[p], g[1], g[2])
  <2> DEFINE d == page_directories[p]
             t == ram.dir[d][g[1]]
  <2>1. CASE t = 0
    BY SMTT(40), <2>1 DEF EntryOf, Contents, View
  <2>2. CASE t # 0
    <3>1. ram \in Rams /\ d \in Frames /\ g[1] \in Indexes /\ g[2] \in Indexes
      BY <1>1, MappedPages DEF MmuInv, MemInv
    <3>2. t \in 0..NumFrames
      BY <3>1, RamTypes
    <3>3. <<t, g[2]>> \in Entries
      BY <2>2, <3>1, <3>2 DEF Entries, Frames, MmuAssumption
    <3>4. <<t, g[2]>> # NULL
      BY <3>3 DEF MmuAssumption
    <3> HIDE DEF t
    <3>5. EntryOf(p, g) = <<t, g[2]>>
      BY <2>2 DEF EntryOf, t
    <3> QED
      BY <2>2, <3>4, <3>5 DEF Contents, View, Held, t
  <2> QED
    BY <2>1, <2>2
<1> QED
  BY <1>1 DEF MemoryAgrees, Memory, MemoryOf, Seen

LEMMA MemoryIsAfter == MmuAssumption /\ MmuInv' => MemoryAgrees'
<1>1. MmuAssumption' /\ MmuInv' => MemoryAgrees'
  BY MemoryIs, PTL
<1>2. MmuAssumption => MmuAssumption'
  BY DEF MmuAssumption
<1> QED
  BY <1>1, <1>2
LEMMA MmuTypes ==
  ASSUME MmuAssumption, MmuInv, NEW p \in Pids
  PROVE  /\ page_directories[p] # NULL => /\ page_directories[p] \in Directories
                                          /\ page_directories[p] \in Frames
         /\ Directories \subseteq Frames /\ ram \in Rams /\ Frames \subseteq Nat /\ NULL \notin Frames
<1>1. Frames \subseteq Nat /\ NULL \notin Frames
  BY DEF Frames, MmuAssumption
<1>2. page_directories \in [Pids -> Frames \cup {NULL}] /\ ram \in Rams
  BY DEF MmuInv, MemInv
<1> QED
  BY <1>1, <1>2 DEF Directories

(* An entry that the tables hold stays where it is. *)
LEMMA EntryStays ==
  ASSUME NEW ds, Keeps(ram, ram', ds), NEW c \in Pids, NEW h \in Mapped,
         page_directories[c] \in ds, page_directories'[c] = page_directories[c],
         EntryOf(c, h) # NULL
  PROVE  EntryOf(c, h)' = EntryOf(c, h)
<1> DEFINE d == page_directories[c]
<1>1. h[1] \in Indexes
  BY MappedPages
<1>2. ram.dir[d][h[1]] # 0
  BY DEF EntryOf
<1>3. ram'.dir[d][h[1]] = ram.dir[d][h[1]]
  BY <1>1, <1>2 DEF Keeps
<1> QED
  BY <1>2, <1>3 DEF EntryOf

(* The TLB after a switch to process p. *)
LEMMA Switched ==
  ASSUME MmuAssumption, MmuInv, NEW p \in Pids
  PROVE  /\ SwitchTo(p) \in [Mapped -> Entries \cup {NULL}]
         /\ Cardinality(Cached(SwitchTo(p))) <= TlbSize
         /\ \A h \in Cached(SwitchTo(p)) :
              /\ curr_pid = p /\ page_directories[p] # NULL
              /\ SwitchTo(p)[h] = EntryOf(p, h) /\ EntryOf(p, h) # NULL
<1>1. CASE curr_pid = p
  <2>1. SwitchTo(p) = tlb
    BY <1>1 DEF SwitchTo
  <2> QED
    BY <1>1, <2>1 DEF MmuInv, TlbSound, Cached
<1>2. CASE curr_pid # p
  <2>1. SwitchTo(p) = NoEntries
    BY <1>2 DEF SwitchTo
  <2>2. Cached(NoEntries) = {}
    BY DEF NoEntries, Cached
  <2>3. Cardinality({}) = 0
    BY FS_EmptySet
  <2>4. NoEntries \in [Mapped -> Entries \cup {NULL}]
    BY DEF NoEntries
  <2> QED
    BY <2>1, <2>2, <2>3, <2>4 DEF MmuAssumption
<1> QED
  BY <1>1, <1>2

(* A refused access changes no memory. *)
LEMMA RefusedKeeps ==
  ASSUME MmuAssumption, MmuInv, NEW p \in Pids, NEW op, NEW g, Refused(op, p, g)
  PROVE  MmuInv' /\ UNCHANGED <<page_directories, ram>>
<1>1. /\ curr_pid' = p /\ tlb' = SwitchTo(p) /\ page_directories' = page_directories
      /\ ram' = ram
  BY DEF Refused
<1>2. Directories' = Directories
  BY <1>1 DEF Directories
<1>3. TlbSound'
  <2> SUFFICES ASSUME NEW h \in Cached(tlb')
               PROVE  page_directories'[curr_pid'] # NULL /\ tlb'[h] = EntryOf(curr_pid, h)'
    BY <1>1, Switched DEF TlbSound
  <2>1. page_directories[p] # NULL /\ SwitchTo(p)[h] = EntryOf(p, h)
    BY <1>1, Switched
  <2> QED
    BY <1>1, <2>1 DEF EntryOf
<1>4. tlb' \in [Mapped -> Entries \cup {NULL}]
  BY <1>1, Switched
<1> QED
  BY <1>1, <1>2, <1>3, <1>4 DEF MmuInv

(* An access that found its entry, into a memory with the same tables. *)
LEMMA TranslatedKeeps ==
  ASSUME MmuAssumption, MmuInv, NEW p \in Pids, page_directories[p] # NULL, NEW g \in Mapped,
         NEW r \in get_table_entry(p, g), Translated(p, g, r.entry),
         ram'.dir = r.ram.dir, MemInv(ram', Directories, {})
  PROVE  MmuInv'
<1> DEFINE d == page_directories[p]
<1>1. /\ curr_pid' = p /\ tlb_add_pte(SwitchTo(p), g, r.entry)
      /\ page_directories' = page_directories
  BY DEF Translated
<1>2. Directories' = Directories
  BY <1>1 DEF Directories
<1>3. /\ Keeps(ram, r.ram, Directories) /\ r.entry \in Entries
      /\ r.ram.dir[d][g[1]] # 0 /\ r.entry = <<r.ram.dir[d][g[1]], g[2]>>
  BY SMTT(40), EntryFound
<1>4. /\ tlb' \in [Mapped -> Entries \cup {NULL}] /\ Cardinality(Cached(tlb')) <= TlbSize
      /\ \A h \in Cached(tlb') : \/ h = g /\ tlb'[h] = r.entry
                                 \/ h \in Cached(SwitchTo(p)) /\ tlb'[h] = SwitchTo(p)[h]
  BY <1>1, <1>3, Switched, TlbTakes
<1>5. ASSUME NEW h \in Cached(tlb') PROVE tlb'[h] = EntryOf(p, h)'
  <2>1. CASE h = g /\ tlb'[h] = r.entry
    BY <1>1, <1>3, <2>1 DEF EntryOf
  <2>2. CASE h \in Cached(SwitchTo(p)) /\ tlb'[h] = SwitchTo(p)[h]
    <3>1. tlb'[h] = EntryOf(p, h) /\ EntryOf(p, h) # NULL /\ h \in Mapped
      BY <2>2, Switched DEF Cached
    <3>2. h[1] \in Indexes /\ d \in Directories
      BY <3>1, MappedPages, MmuTypes
    <3>3. ram.dir[d][h[1]] # 0
      BY <3>1 DEF EntryOf
    <3>4. r.ram.dir[d][h[1]] = ram.dir[d][h[1]]
      BY <1>3, <3>2, <3>3 DEF Keeps
    <3> QED
      BY <1>1, <3>1, <3>3, <3>4 DEF EntryOf
  <2> QED
    BY <1>4, <2>1, <2>2
<1>6. TlbSound'
  <2>1. \A h \in Cached(tlb') : page_directories'[p] # NULL /\ tlb'[h] = EntryOf(p, h)'
    BY <1>1, <1>5
  <2> QED
    BY <1>1, <1>4, <2>1 DEF TlbSound
<1> QED
  BY <1>1, <1>2, <1>4, <1>6 DEF MmuInv
(* The memory of a process, now and afterwards. *)
LEMMA MemoryNow ==
  ASSUME MmuAssumption, MmuInv
  PROVE  /\ Memory = MemoryOf(page_directories, ram)
         /\ \A p \in Pids : page_directories[p] = NULL => Memory[p] = NULL
         /\ \A p \in Pids : page_directories[p] # NULL =>
              Memory[p] # NULL /\ Memory[p] = Seen(ram, page_directories[p])
<1>1. Memory = MemoryOf(page_directories, ram)
  BY MemoryIs DEF MemoryAgrees
<1>2. ASSUME NEW p \in Pids, page_directories[p] # NULL
      PROVE  Seen(ram, page_directories[p]) # NULL
  <2> DEFINE d == page_directories[p]
  <2>1. ram \in Rams /\ d \in Frames
    BY <1>2, MmuTypes
  <2>2. ASSUME NEW g \in Mapped PROVE View(ram, d, g[1], g[2]) \in Values
    <3>1. g[1] \in Indexes /\ g[2] \in Indexes
      BY MappedPages
    <3>2. ram.dir[d][g[1]] \in 0..NumFrames
      BY <2>1, <3>1, RamTypes
    <3>3. CASE ram.dir[d][g[1]] = 0
      BY <3>3 DEF View, MmuAssumption
    <3>4. CASE ram.dir[d][g[1]] # 0
      <4> DEFINE a == <<ram.dir[d][g[1]], g[2]>>
      <4>1. a \in Entries
        BY <3>1, <3>2, <3>4 DEF Entries, Frames, MmuAssumption
      <4> HIDE DEF a
      <4>2. /\ ram.pte[a] \in 0..NumFrames /\ ram.swap[a] \in Values \cup {NoFile}
            /\ ram.data \in [Frames -> Values] /\ 0 \in Values
        BY <2>1, <4>1, RamTypes DEF MmuAssumption
      <4>3. ram.pte[a] # 0 => ram.pte[a] \in Frames
        BY <4>2 DEF Frames, MmuAssumption
      <4>4. Held(ram, a) \in Values
        BY <4>2, <4>3 DEF Held
      <4> QED
        BY <3>4, <4>4 DEF View, a
    <3> QED
      BY <3>3, <3>4
  <2>3. Seen(ram, d) \in [Mapped -> Values]
    BY <2>2 DEF Seen
  <2> QED
    BY <2>3 DEF MmuAssumption
<1> QED
  BY <1>1, <1>2 DEF MemoryOf

(* Nothing changes for processes that stay when all they see is kept. *)
LEMMA SameMemory ==
  ASSUME MmuAssumption, MmuInv, MmuInv', page_directories' = page_directories,
         Keeps(ram, ram', Directories)
  PROVE  Memory' = Memory
<1>1. Memory = MemoryOf(page_directories, ram) /\ Memory' = MemoryOf(page_directories, ram')
  BY MemoryIs, MemoryIsAfter DEF MemoryAgrees
<1>2. ASSUME NEW p \in Pids, page_directories[p] # NULL
      PROVE  Seen(ram', page_directories[p]) = Seen(ram, page_directories[p])
  <2>1. \A g \in Mapped : g[1] \in Indexes /\ g[2] \in Indexes
    BY MappedPages
  <2>2. page_directories[p] \in Directories
    BY <1>2, MmuTypes
  <2>3. \A g \in Mapped : View(ram', page_directories[p], g[1], g[2])
                            = View(ram, page_directories[p], g[1], g[2])
    BY <2>1, <2>2 DEF Keeps
  <2> QED
    BY <2>3 DEF Seen
<1>3. MemoryOf(page_directories, ram') = MemoryOf(page_directories, ram)
  BY <1>2 DEF MemoryOf
<1> QED
  BY <1>1, <1>3

(***************************************************************************)
(* The steps                                                               *)
(***************************************************************************)
(* A read returns what the process last wrote. *)
LEMMA ReadStep ==
  ASSUME MmuAssumption, MmuInv, NEW p \in Pids, NEW g \in Mapped \cup Outside,
         mmu_read_from_virtual_address(p, g)
  PROVE  MmuInv' /\ Abstract!ReadPage(p, g)
<1>0. page_directories[p] # NULL /\ Memory[p] # NULL
  BY MemoryNow DEF mmu_read_from_virtual_address
<1>1. CASE g \notin Mapped /\ Refused("read", p, g)
  <2>1. MmuInv' /\ page_directories' = page_directories /\ ram' = ram
    BY <1>1, RefusedKeeps
  <2>2. Keeps(ram, ram', Directories)
    BY <2>1 DEF Keeps
  <2>3. Memory' = Memory
    BY <2>1, <2>2, SameMemory
  <2>4. reply' = <<"read", p, g, SegFault>>
    BY <1>1 DEF Refused
  <2> QED
    BY <1>0, <1>1, <2>1, <2>3, <2>4, MappedPages DEF Abstract!ReadPage, Memory
<1>2. CASE g \in Mapped
  <2>1. PICK r \in get_table_entry(p, g) :
          /\ Translated(p, g, r.entry) /\ ram' = r.ram
          /\ reply' = <<"read", p, g, r.ram.data[r.ram.pte[r.entry]]>>
    BY <1>2 DEF mmu_read_from_virtual_address
  <2> DEFINE d == page_directories[p]
  <2>2. /\ MemInv(r.ram, Directories, {}) /\ Keeps(ram, r.ram, Directories)
        /\ r.ram.dir[d][g[1]] # 0 /\ r.entry = <<r.ram.dir[d][g[1]], g[2]>>
        /\ r.ram.pte[r.entry] \in Frames
    BY SMTT(40), <1>0, <1>2, EntryFound
  <2>3. MmuInv' /\ page_directories' = page_directories
    BY SMTT(40), <1>0, <1>2, <2>1, <2>2, TranslatedKeeps DEF Translated
  <2>4. Memory' = Memory
    <3>1. Keeps(ram, ram', Directories)
      BY SMTT(40), <2>1, <2>2
    <3> QED
      BY SMTT(40), <2>3, <3>1, SameMemory
  <2>5. reply' = <<"read", p, g, Held(r.ram, r.entry)>>
    BY <2>1, <2>2, Distinct DEF Held
  <2>6. reply' = <<"read", p, g, View(r.ram, d, g[1], g[2])>>
    BY <2>2, <2>5 DEF View
  <2>7. reply' = <<"read", p, g, View(ram, d, g[1], g[2])>>
    BY <1>0, <1>2, <2>2, <2>6, MmuTypes, MappedPages DEF Keeps
  <2>8. Memory[p][g] = View(ram, d, g[1], g[2])
    BY <1>0, <1>2, MemoryNow DEF Seen
  <2> QED
    BY <1>0, <1>2, <2>3, <2>4, <2>7, <2>8, MappedPages DEF Abstract!ReadPage, Memory
<1> QED
  BY <1>1, <1>2 DEF mmu_read_from_virtual_address
(* A write changes that page of that process. *)
LEMMA WriteStep ==
  ASSUME MmuAssumption, MmuInv, NEW p \in Pids, NEW g \in Mapped \cup Outside, NEW v \in Values,
         mmu_write_to_virtual_address(p, g, v)
  PROVE  MmuInv' /\ Abstract!WritePage(p, g, v)
<1>0. page_directories[p] # NULL /\ Memory[p] # NULL
  BY MemoryNow DEF mmu_write_to_virtual_address
<1>1. CASE g \notin Writable /\ Refused("write", p, g)
  <2>1. MmuInv' /\ page_directories' = page_directories /\ ram' = ram
    BY <1>1, RefusedKeeps
  <2>2. Keeps(ram, ram', Directories)
    BY <2>1 DEF Keeps
  <2>3. Memory' = Memory
    BY <2>1, <2>2, SameMemory
  <2>4. reply' = <<"write", p, g, SegFault>>
    BY <1>1 DEF Refused
  <2> QED
    BY <1>0, <1>1, <2>1, <2>3, <2>4 DEF Abstract!WritePage, Memory
<1>2. CASE g \in Writable
  <2>1. PICK r \in get_table_entry(p, g) :
          /\ Translated(p, g, r.entry) /\ reply' = <<"write", p, g, v>>
          /\ ram' = [r.ram EXCEPT !.dirty = MarkDirty(r.ram, r.entry),
                                  !.data[r.ram.pte[r.entry]] = v]
    BY <1>2 DEF mmu_write_to_virtual_address
  <2> DEFINE d == page_directories[p]
             ds == Directories
             n == r.ram
  <2>0. g \in Mapped
    BY <1>2 DEF Mapped
  <2>2. /\ MemInv(n, ds, {}) /\ Keeps(ram, n, ds)
        /\ n.dir[d][g[1]] # 0 /\ r.entry = <<n.dir[d][g[1]], g[2]>>
        /\ r.entry \in Entries /\ n.pte[r.entry] \in Frames
    BY SMTT(40), <1>0, <2>0, EntryFound
  <2>3. /\ MemInv(ram', ds, {}) /\ ram'.dir = n.dir
        /\ \A b \in Entries : Held(ram', b) = IF b = r.entry THEN v ELSE Held(n, b)
    <3> HIDE DEF ds, n
    <3>1. ram' = [n EXCEPT !.dirty = MarkDirty(n, r.entry), !.data[n.pte[r.entry]] = v]
      BY <2>1 DEF n
    <3> QED
      BY ZenonT(60), <2>2, <3>1, Written
  <2>4. MmuInv' /\ page_directories' = page_directories
    BY <1>0, <2>0, <2>1, <2>3, TranslatedKeeps DEF Translated
  <2>5. d \in ds /\ n \in Rams /\ Trees(n, ds)
    BY <1>0, <2>2, MmuTypes DEF MemInv
  <2> HIDE DEF n, ds
  <2>6. ASSUME NEW q \in Pids, page_directories[q] # NULL, NEW h \in Mapped
        PROVE  View(ram', page_directories[q], h[1], h[2])
                 = IF q = p /\ h = g THEN v
                   ELSE View(ram, page_directories[q], h[1], h[2])
    <3> DEFINE e == page_directories[q]
               t == n.dir[e][h[1]]
    <3>1. /\ e \in ds /\ e \in Frames /\ h[1] \in Indexes /\ h[2] \in Indexes /\ h = <<h[1], h[2]>>
          /\ g[1] \in Indexes /\ g[2] \in Indexes /\ g = <<g[1], g[2]>>
      BY <2>0, <2>6, MmuTypes, MappedPages DEF ds
    <3>2. View(n, e, h[1], h[2]) = View(ram, e, h[1], h[2])
      BY <2>2, <3>1 DEF Keeps
    <3>3. CASE t = 0
      <4>1. ~(q = p /\ h = g)
        BY <2>2, <3>3
      <4> QED
        BY <2>3, <3>2, <3>3, <4>1 DEF View
    <3>4. CASE t # 0
      <4>1. t \in 0..NumFrames
        BY <2>5, <3>1, RamTypes
      <4>2. <<t, h[2]>> \in Entries
        BY <3>1, <3>4, <4>1 DEF Entries, Frames, MmuAssumption
      <4>3. <<t, h[2]>> = r.entry <=> q = p /\ h = g
        <5>1. t = n.dir[d][g[1]] => e = d /\ h[1] = g[1]
          BY <2>5, <3>1, <3>4 DEF Trees
        <5>2. e = d => q = p
          BY <1>0, <2>6 DEF MmuInv
        <5> HIDE DEF e, t, d
        <5>3. <<t, h[2]>> = r.entry => q = p /\ h = g
          BY <2>2, <3>1, <5>1, <5>2
        <5>4. q = p /\ h = g => <<t, h[2]>> = r.entry
          BY <2>2 DEF t, e, d
        <5> QED
          BY <5>3, <5>4
      <4>4. View(ram', e, h[1], h[2]) = Held(ram', <<t, h[2]>>)
        BY <2>3, <3>4 DEF View
      <4>5. View(n, e, h[1], h[2]) = Held(n, <<t, h[2]>>)
        BY <3>4 DEF View
      <4> HIDE DEF t, e
      <4>6. View(ram', e, h[1], h[2])
              = IF q = p /\ h = g THEN v ELSE View(ram, e, h[1], h[2])
        BY <2>3, <3>2, <4>2, <4>3, <4>4, <4>5
      <4> QED
        BY <4>6 DEF e
    <3> QED
      BY <3>3, <3>4
  <2>7. Memory' = [Memory EXCEPT ![p][g] = v]
    <3>1. Memory = MemoryOf(page_directories, ram) /\ Memory' = MemoryOf(page_directories, ram')
      BY <2>4, MemoryIs, MemoryIsAfter DEF MemoryAgrees
    <3>2. ASSUME NEW q \in Pids, page_directories[q] # NULL
          PROVE  Seen(ram', page_directories[q])
                   = IF q = p THEN [Seen(ram, page_directories[q]) EXCEPT ![g] = v]
                     ELSE Seen(ram, page_directories[q])
      BY <2>0, <2>6, <3>2 DEF Seen
    <3> QED
      BY <1>0, <3>1, <3>2 DEF MemoryOf
  <2> QED
    BY <1>0, <1>2, <2>1, <2>4, <2>7 DEF Abstract!WritePage, Memory
<1> QED
  BY <1>1, <1>2 DEF mmu_write_to_virtual_address
(* The frames of a new process: its directory, which sees zeros, and what   *)
(* the others see is kept.                                                  *)
LEMMA AddedIsSound ==
  ASSUME MmuAssumption, NEW k, NEW ds, MemInv(k, ds, {}),
         NEW d \in ask_kernel_for_frame(k, Pinned),
         NEW t \in ask_kernel_for_frame(d.ram, Pinned),
         NEW g1 \in ask_kernel_for_frame([t.ram EXCEPT !.dir[d.frame][0] = t.frame],
                                         <<t.frame, 1>>),
         NEW g2 \in ask_kernel_for_frame(Present(g1.ram, <<t.frame, 1>>, g1.frame),
                                         <<t.frame, 2>>)
  PROVE  LET n == Present(g2.ram, <<t.frame, 2>>, g2.frame)
         IN /\ d.frame \in Frames \ ds /\ MemInv(n, ds \cup {d.frame}, {}) /\ Keeps(k, n, ds)
            /\ \A i, j \in Indexes : View(n, d.frame, i, j) = 0
<1> DEFINE es == ds \cup {d.frame}
           l == [t.ram EXCEPT !.dir[d.frame][0] = t.frame]
           a1 == <<t.frame, 1>>
           a2 == <<t.frame, 2>>
           m == Present(g1.ram, a1, g1.frame)
           n == Present(g2.ram, a2, g2.frame)
<1>1. /\ d.frame \in Frames /\ d.frame \notin ds /\ MemInv(d.ram, es, {}) /\ Keeps(k, d.ram, ds)
      /\ d.ram.dir[d.frame] = NoTables
  BY AskPinned
<1>2. d.frame \in es /\ ds \subseteq es
  OBVIOUS
<1> HIDE DEF es
<1>3. /\ t.frame \in Frames /\ t.frame \notin es /\ MemInv(t.ram, es \cup {t.frame}, {})
      /\ Keeps(d.ram, t.ram, es) /\ t.ram.dir[t.frame] = NoTables
      /\ SameTables(d.ram, t.ram, es) /\ BlankTable(t.ram, t.frame)
  BY <1>1, AskPinned
<1>4. t.ram.dir[d.frame] = NoTables /\ t.ram.dir[d.frame][0] = 0 /\ 0 \in Indexes
  BY <1>1, <1>2, <1>3, Distinct DEF SameTables, NoTables
<1>5. /\ MemInv(l, es, {}) /\ Keeps(t.ram, l, es) /\ l.dir[d.frame][0] = t.frame
      /\ \A b : Blank(t.ram, b) => Blank(l, b)
  BY <1>2, <1>3, <1>4, Adopt
<1> HIDE DEF l
<1>6. t.frame \in Tables(l, es)
  BY <1>2, <1>3, <1>4, <1>5, Distinct DEF Tables
<1>7. /\ a1 \in Entries /\ a2 \in Entries /\ a1 # a2 /\ a1[1] = t.frame /\ a2[1] = t.frame
  BY <1>3, Distinct DEF Entries
<1> HIDE DEF a1, a2
<1>8. Blank(l, a1) /\ Blank(l, a2)
  BY <1>3, <1>5, <1>7 DEF BlankTable
<1>9. /\ MemInv(m, es, {}) /\ Keeps(l, m, es) /\ BlanksStay(l, m, a1)
  <2> DEFINE x == read_page_from_disk(m, a1)
  <2>1. a1[1] \in Tables(l, es) /\ l.pte[a1] = 0 /\ g1 \in ask_kernel_for_frame(l, a1)
    BY <1>6, <1>7, <1>8 DEF Blank, l, a1
  <2>2. MemInv(x, es, {}) /\ Keeps(l, x, es) /\ BlanksStay(l, x, a1) /\ x = m
    BY <1>5, <1>7, <1>8, <2>1, AskPage
  <2> QED
    BY <2>2
<1> HIDE DEF m
<1>10. Tables(m, es) = Tables(l, es) \/ t.frame \in Tables(m, es)
  BY SMTT(40), <1>2, <1>3, <1>4, <1>5, <1>9, Distinct DEF Tables, Keeps
<1>11. /\ MemInv(n, es, {}) /\ Keeps(m, n, es)
  <2> DEFINE x == read_page_from_disk(n, a2)
  <2>1. Blank(m, a2)
    BY <1>7, <1>8, <1>9 DEF BlanksStay
  <2>2. a2[1] \in Tables(m, es) /\ m.pte[a2] = 0 /\ g2 \in ask_kernel_for_frame(m, a2)
    BY <1>6, <1>7, <1>10, <2>1 DEF Blank, m, a1, a2
  <2>3. MemInv(x, es, {}) /\ Keeps(m, x, es) /\ x = n
    BY <1>7, <1>9, <2>1, <2>2, AskPage
  <2> QED
    BY <2>3
<1> HIDE DEF n
<1>12. Keeps(d.ram, n, es)
  <2>1. Keeps(d.ram, l, es)
    BY <1>3, <1>5, KeepsLasts
  <2>2. Keeps(d.ram, m, es)
    BY <1>9, <2>1, KeepsLasts
  <2> QED
    BY <1>11, <2>2, KeepsLasts
<1>13. Keeps(k, n, ds)
  BY <1>1, <1>2, <1>12, KeepsLasts
<1>14. ASSUME NEW i \in Indexes, NEW j \in Indexes PROVE View(n, d.frame, i, j) = 0
  <2>1. View(d.ram, d.frame, i, j) = 0
    BY <1>1 DEF View, NoTables
  <2> QED
    BY <1>2, <1>12, <2>1 DEF Keeps
<1> QED
  BY <1>1, <1>11, <1>13, <1>14 DEF n, es, a2

(* A new process starts with zeros. *)
LEMMA AddStep ==
  ASSUME MmuAssumption, MmuInv, NEW p \in Pids, mmu_add_process(p)
  PROVE  MmuInv' /\ Abstract!Start(p)
<1> DEFINE ds == Directories
<1>1. PICK f, n :
        /\ f \in Frames \ ds /\ MemInv(n, ds \cup {f}, {}) /\ Keeps(ram, n, ds)
        /\ \A i, j \in Indexes : View(n, f, i, j) = 0
        /\ page_directories' = [page_directories EXCEPT ![p] = f] /\ ram' = n
  <2>1. PICK d \in ask_kernel_for_frame(ram, Pinned) :
        \E t \in ask_kernel_for_frame(d.ram, Pinned) :
        \E g1 \in ask_kernel_for_frame([t.ram EXCEPT !.dir[d.frame][0] = t.frame],
                                       <<t.frame, 1>>) :
        \E g2 \in ask_kernel_for_frame(Present(g1.ram, <<t.frame, 1>>, g1.frame),
                                       <<t.frame, 2>>) :
          /\ page_directories' = [page_directories EXCEPT ![p] = d.frame]
          /\ ram' = Present(g2.ram, <<t.frame, 2>>, g2.frame)
    BY DEF mmu_add_process
  <2>2. PICK t \in ask_kernel_for_frame(d.ram, Pinned) :
        \E g1 \in ask_kernel_for_frame([t.ram EXCEPT !.dir[d.frame][0] = t.frame],
                                       <<t.frame, 1>>) :
        \E g2 \in ask_kernel_for_frame(Present(g1.ram, <<t.frame, 1>>, g1.frame),
                                       <<t.frame, 2>>) :
          /\ page_directories' = [page_directories EXCEPT ![p] = d.frame]
          /\ ram' = Present(g2.ram, <<t.frame, 2>>, g2.frame)
    BY <2>1
  <2>3. PICK g1 \in ask_kernel_for_frame([t.ram EXCEPT !.dir[d.frame][0] = t.frame],
                                         <<t.frame, 1>>) :
        \E g2 \in ask_kernel_for_frame(Present(g1.ram, <<t.frame, 1>>, g1.frame),
                                       <<t.frame, 2>>) :
          /\ page_directories' = [page_directories EXCEPT ![p] = d.frame]
          /\ ram' = Present(g2.ram, <<t.frame, 2>>, g2.frame)
    BY <2>2
  <2>4. PICK g2 \in ask_kernel_for_frame(Present(g1.ram, <<t.frame, 1>>, g1.frame),
                                         <<t.frame, 2>>) :
          /\ page_directories' = [page_directories EXCEPT ![p] = d.frame]
          /\ ram' = Present(g2.ram, <<t.frame, 2>>, g2.frame)
    BY <2>3
  <2> DEFINE n == Present(g2.ram, <<t.frame, 2>>, g2.frame)
  <2>5. MemInv(ram, ds, {})
    BY DEF MmuInv
  <2> HIDE DEF ds
  <2>6. /\ d.frame \in Frames \ ds /\ MemInv(n, ds \cup {d.frame}, {}) /\ Keeps(ram, n, ds)
        /\ \A i, j \in Indexes : View(n, d.frame, i, j) = 0
    BY <2>5, AddedIsSound
  <2> HIDE DEF n
  <2> QED
    BY <2>4, <2>6 DEF n
<1>2. /\ page_directories[p] = NULL /\ reply' = <<"start", p>> /\ curr_pid' = curr_pid /\ tlb' = tlb
      /\ page_directories \in [Pids -> Frames \cup {NULL}] /\ NULL \notin Frames
  BY MmuTypes DEF mmu_add_process, MmuInv
<1>3. /\ page_directories'[p] = f
      /\ \A q \in Pids : q # p => page_directories'[q] = page_directories[q]
      /\ page_directories' \in [Pids -> Frames \cup {NULL}]
  BY <1>1, <1>2
<1>4. Directories' = ds \cup {f}
  BY <1>1, <1>2, <1>3 DEF Directories
<1>5. \A q \in Pids : page_directories[q] # NULL => page_directories[q] \in ds
  BY DEF Directories
<1>6. \A q, r \in Pids :
        page_directories'[q] # NULL /\ page_directories'[q] = page_directories'[r] => q = r
  BY <1>1, <1>2, <1>3, <1>5 DEF MmuInv
<1>7. TlbSound'
  <2>1. ASSUME NEW h \in Cached(tlb)
        PROVE  page_directories'[curr_pid] # NULL /\ tlb[h] = EntryOf(curr_pid, h)'
    <3>1. /\ page_directories[curr_pid] # NULL /\ tlb[h] = EntryOf(curr_pid, h)
          /\ EntryOf(curr_pid, h) # NULL /\ h \in Mapped /\ curr_pid \in Pids
      BY DEF MmuInv, TlbSound, Cached
    <3>2. page_directories'[curr_pid] = page_directories[curr_pid]
      BY <1>2, <1>3, <3>1
    <3>3. EntryOf(curr_pid, h)' = EntryOf(curr_pid, h)
      BY <1>1, <1>2, <1>5, <3>1, <3>2, EntryStays
    <3> QED
      BY <3>1, <3>2, <3>3
  <2> QED
    BY <1>2, <2>1 DEF TlbSound, MmuInv
<1>8. MmuInv'
  <2>1. MemInv(ram', Directories', {})
    BY <1>1, <1>4
  <2> QED
    BY <1>2, <1>3, <1>6, <1>7, <2>1 DEF MmuInv
<1>9. Memory' = [Memory EXCEPT ![p] = [g \in Mapped |-> 0]]
  <2>1. Memory = MemoryOf(page_directories, ram) /\ Memory' = MemoryOf(page_directories', ram')
    BY <1>8, MemoryIs, MemoryIsAfter DEF MemoryAgrees
  <2>2. \A g \in Mapped : g[1] \in Indexes /\ g[2] \in Indexes
    BY MappedPages
  <2>3. Seen(ram', f) = [g \in Mapped |-> 0]
    BY <1>1, <2>2 DEF Seen
  <2>4. ASSUME NEW q \in Pids, page_directories[q] # NULL
        PROVE  Seen(ram', page_directories[q]) = Seen(ram, page_directories[q])
    <3>1. page_directories[q] \in ds
      BY <1>5, <2>4
    <3> QED
      BY <1>1, <2>2, <3>1 DEF Seen, Keeps
  <2> QED
    BY <1>1, <1>2, <1>3, <2>1, <2>3, <2>4 DEF MemoryOf
<1>10. Memory[p] = NULL
  BY <1>2, MemoryNow
<1> QED
  BY <1>2, <1>8, <1>9, <1>10, MappedPages DEF Abstract!Start, Memory
(* A process whose directory is gone has no memory; the others keep theirs. *)
LEMMA StoppedMemory ==
  ASSUME MmuAssumption, MmuInv, MmuInv', NEW ps \in SUBSET Pids,
         NEW es, es = {page_directories[p] : p \in ps} \ {NULL},
         page_directories' = [p \in Pids |-> IF p \in ps THEN NULL ELSE page_directories[p]],
         Keeps(ram, ram', Directories \ es)
  PROVE  Memory' = [p \in Pids |-> IF p \in ps THEN NULL ELSE Memory[p]]
<1>1. Memory = MemoryOf(page_directories, ram) /\ Memory' = MemoryOf(page_directories', ram')
  BY MemoryIs, MemoryIsAfter DEF MemoryAgrees
<1>2. \A g \in Mapped : g[1] \in Indexes /\ g[2] \in Indexes
  BY MappedPages
<1>3. ASSUME NEW p \in Pids \ ps, page_directories[p] # NULL
      PROVE  Seen(ram', page_directories[p]) = Seen(ram, page_directories[p])
  <2>1. page_directories[p] \in Directories \ es
    BY <1>3 DEF Directories, MmuInv
  <2> QED
    BY <1>2, <2>1 DEF Seen, Keeps
<1> QED
  BY <1>1, <1>3 DEF MemoryOf

(* A removed process loses its memory, and nobody else does. *)
LEMMA RemoveStep ==
  ASSUME MmuAssumption, MmuInv, NEW p \in Pids, mmu_remove_process(p)
  PROVE  MmuInv' /\ Abstract!Stop(p)
<1> DEFINE d == page_directories[p]
           rs == Directories \ {d}
<1>1. /\ d # NULL /\ ram' = Released(ram, {d}) /\ reply' = <<"stop", p>> /\ curr_pid' = curr_pid
      /\ page_directories' = [page_directories EXCEPT ![p] = NULL]
      /\ tlb' = IF curr_pid = p THEN NoEntries ELSE tlb
      /\ page_directories \in [Pids -> Frames \cup {NULL}] /\ MemInv(ram, Directories, {})
      /\ d \in Directories
  BY MmuTypes DEF mmu_remove_process, MmuInv
<1>2. MemInv(ram', rs, {}) /\ Keeps(ram, ram', rs)
  <2> DEFINE ds == Directories
  <2>1. MemInv(ram, ds, {}) /\ {d} \subseteq ds
    BY <1>1
  <2> HIDE DEF ds, d
  <2>2. MemInv(Released(ram, {d}), ds \ {d}, {}) /\ Keeps(ram, Released(ram, {d}), ds \ {d})
    BY <2>1, ReleasedIsSound
  <2> QED
    BY <1>1, <2>2 DEF ds
<1>3. /\ page_directories'[p] = NULL
      /\ \A q \in Pids : q # p => page_directories'[q] = page_directories[q]
      /\ page_directories' \in [Pids -> Frames \cup {NULL}]
  BY <1>1
<1>4. \A q, r \in Pids :
        page_directories[q] # NULL /\ page_directories[q] = page_directories[r] => q = r
  BY DEF MmuInv
<1>5. Directories' = rs
  <2>1. \A q \in Pids : page_directories'[q] # NULL <=> q # p /\ page_directories[q] # NULL
    BY <1>3
  <2> QED
    BY <1>1, <1>3, <1>4, <2>1 DEF Directories
<1>6. \A q, r \in Pids :
        page_directories'[q] # NULL /\ page_directories'[q] = page_directories'[r] => q = r
  BY <1>3, <1>4
<1>7. TlbSound' /\ tlb' \in [Mapped -> Entries \cup {NULL}]
  <2>1. CASE curr_pid = p
    <3>1. tlb' = NoEntries /\ Cached(NoEntries) = {} /\ NoEntries \in [Mapped -> Entries \cup {NULL}]
      BY <1>1, <2>1 DEF NoEntries, Cached
    <3>2. Cardinality({}) = 0
      BY FS_EmptySet
    <3> QED
      BY <3>1, <3>2 DEF TlbSound, MmuAssumption
  <2>2. CASE curr_pid # p
    <3>1. ASSUME NEW h \in Cached(tlb)
          PROVE  page_directories'[curr_pid] # NULL /\ tlb[h] = EntryOf(curr_pid, h)'
      <4>1. /\ page_directories[curr_pid] # NULL /\ tlb[h] = EntryOf(curr_pid, h)
            /\ EntryOf(curr_pid, h) # NULL /\ h \in Mapped /\ curr_pid \in Pids
        BY DEF MmuInv, TlbSound, Cached
      <4>2. page_directories'[curr_pid] = page_directories[curr_pid]
        BY <1>3, <2>2, <4>1
      <4>3. page_directories[curr_pid] \in rs
        BY <1>4, <2>2, <4>1, MmuTypes
      <4>4. EntryOf(curr_pid, h)' = EntryOf(curr_pid, h)
        BY <1>1, <1>2, <4>1, <4>2, <4>3, EntryStays
      <4> QED
        BY <4>1, <4>2, <4>4
    <3>2. tlb' = tlb
      BY <1>1, <2>2
    <3> QED
      BY <1>1, <3>1, <3>2 DEF TlbSound, MmuInv
  <2> QED
    BY <2>1, <2>2
<1>8. MmuInv'
  <2>1. MemInv(ram', Directories', {})
    BY <1>2, <1>5
  <2> QED
    BY <1>1, <1>3, <1>6, <1>7, <2>1 DEF MmuInv
<1>9. Memory' = [q \in Pids |-> IF q \in {p} THEN NULL ELSE Memory[q]]
  <2>1. {d} = {page_directories[q] : q \in {p}} \ {NULL} /\ {p} \in SUBSET Pids
    BY <1>1
  <2>2. page_directories'
          = [q \in Pids |-> IF q \in {p} THEN NULL ELSE page_directories[q]]
    BY <1>1
  <2> HIDE DEF d
  <2> QED
    BY <1>2, <1>8, <2>1, <2>2, StoppedMemory
<1>10. Memory' = [Memory EXCEPT ![p] = NULL]
  BY <1>9 DEF Memory
<1>11. Memory[p] # NULL
  BY <1>1, MemoryNow
<1> QED
  BY <1>1, <1>8, <1>10, <1>11 DEF Abstract!Stop, Memory

(* No memory is left of any process. *)
LEMMA DeleteStep ==
  ASSUME MmuAssumption, MmuInv, mmu_delete
  PROVE  MmuInv' /\ Abstract!StopAll
<1>1. /\ ram' = Released(ram, Directories) /\ page_directories' = [p \in Pids |-> NULL]
      /\ curr_pid' = 0 /\ tlb' = NoEntries /\ reply' = NULL
      /\ MemInv(ram, Directories, {})
  BY DEF mmu_delete, MmuInv
<1>2. Directories' = {} /\ \A p \in Pids : page_directories'[p] = NULL
  BY <1>1 DEF Directories
<1>3. MemInv(ram', {}, {})
  <2> DEFINE ds == Directories
  <2>1. MemInv(ram, ds, {}) /\ ds \ ds = {}
    BY <1>1
  <2> HIDE DEF ds
  <2>2. MemInv(Released(ram, ds), ds \ ds, {})
    BY <2>1, ReleasedIsSound
  <2> QED
    BY <1>1, <2>1, <2>2 DEF ds
<1>4. TlbSound' /\ tlb' \in [Mapped -> Entries \cup {NULL}]
  <2>1. Cached(NoEntries) = {} /\ NoEntries \in [Mapped -> Entries \cup {NULL}]
    BY DEF NoEntries, Cached
  <2>2. Cardinality({}) = 0
    BY FS_EmptySet
  <2> QED
    BY <1>1, <2>1, <2>2 DEF TlbSound, MmuAssumption
<1>5. MmuInv'
  BY <1>1, <1>2, <1>3, <1>4 DEF MmuInv, MmuAssumption
<1>6. Memory' = [p \in Pids |-> NULL]
  BY <1>2 DEF Memory
<1> QED
  BY <1>1, <1>5, <1>6 DEF Abstract!StopAll, Abstract!MemoryInit, Memory

(* Nothing runs at first. *)
LEMMA MmuStarts ==
  ASSUME MmuAssumption, Init
  PROVE  MmuInv /\ Abstract!MemoryInit
<1>1. /\ page_directories = [p \in Pids |-> NULL] /\ curr_pid = 0 /\ tlb = NoEntries
      /\ reply = NULL
      /\ ram = [owner |-> [f \in Frames |-> Free], dir |-> [f \in Frames |-> NoTables],
                data |-> [f \in Frames |-> 0], pte |-> [a \in Entries |-> 0],
                dirty |-> {}, swap |-> [a \in Entries |-> NoFile]]
  BY DEF Init
<1>2. Directories = {} /\ Tables(ram, {}) = {}
  BY <1>1 DEF Directories, Tables
<1>3. ram \in Rams
  <2>1. 0 \in 0..NumFrames /\ 0 \in Values
    BY DEF MmuAssumption
  <2>2. NoTables \in [Indexes -> 0..NumFrames]
    BY <2>1 DEF NoTables
  <2> QED
    BY <1>1, <2>1, <2>2 DEF Rams
<1>4. /\ \A f \in Frames : ram.owner[f] = Free
      /\ \A a \in Entries : ram.pte[a] = 0 /\ ram.swap[a] = NoFile
  BY <1>1
<1>5. MemInv(ram, {}, {})
  BY <1>2, <1>3, <1>4, Distinct
     DEF MemInv, Pinning, Trees, Pointers, Granted, Files, CleanPages
<1>6. TlbSound /\ tlb \in [Mapped -> Entries \cup {NULL}]
  <2>1. Cached(NoEntries) = {} /\ NoEntries \in [Mapped -> Entries \cup {NULL}]
    BY DEF NoEntries, Cached
  <2>2. Cardinality({}) = 0
    BY FS_EmptySet
  <2> QED
    BY <1>1, <2>1, <2>2 DEF TlbSound, MmuAssumption
<1>7. MmuInv
  BY <1>1, <1>2, <1>5, <1>6 DEF MmuInv, MmuAssumption
<1>8. Memory = [p \in Pids |-> NULL]
  BY <1>1 DEF Memory
<1> QED
  BY <1>1, <1>7, <1>8 DEF Abstract!MemoryInit, Memory
(* Every step is one of the private memories, or changes nothing of them. *)
LEMMA MmuStep ==
  ASSUME MmuAssumption, MmuInv, [Next]_vars
  PROVE  MmuInv' /\ (Abstract!MemoryNext \/ UNCHANGED <<Memory, reply>>)
<1>1. CASE mmu_delete
  BY <1>1, DeleteStep DEF Abstract!MemoryNext
<1>2. ASSUME NEW p \in Pids, mmu_add_process(p)
      PROVE  MmuInv' /\ Abstract!MemoryNext
  BY <1>2, AddStep DEF Abstract!MemoryNext
<1>3. ASSUME NEW p \in Pids, mmu_remove_process(p)
      PROVE  MmuInv' /\ Abstract!MemoryNext
  BY <1>3, RemoveStep DEF Abstract!MemoryNext
<1>4. ASSUME NEW p \in Pids, NEW g \in Mapped \cup Outside, mmu_read_from_virtual_address(p, g)
      PROVE  MmuInv' /\ Abstract!MemoryNext
  BY <1>4, ReadStep, MappedPages DEF Abstract!MemoryNext
<1>5. ASSUME NEW p \in Pids, NEW g \in Mapped \cup Outside, NEW v \in Values,
             mmu_write_to_virtual_address(p, g, v)
      PROVE  MmuInv' /\ Abstract!MemoryNext
  BY <1>5, WriteStep, MappedPages DEF Abstract!MemoryNext
<1>6. CASE UNCHANGED vars
  <2>1. UNCHANGED <<page_directories, curr_pid, tlb, ram, reply>>
    BY <1>6 DEF vars
  <2>2. Directories' = Directories /\ TlbSound'
    BY <2>1 DEF Directories, MmuInv, TlbSound, EntryOf, Cached
  <2>3. MmuInv'
    BY <2>1, <2>2 DEF MmuInv
  <2>4. Keeps(ram, ram', Directories)
    BY <2>1 DEF Keeps
  <2> QED
    BY <2>1, <2>3, <2>4, SameMemory
<1> QED
  BY <1>1, <1>2, <1>3, <1>4, <1>5, <1>6 DEF Next

(* As many entries have a page as frames hold one. *)
LEMMA PagesCounted ==
  ASSUME MmuAssumption, NEW k, NEW ds, MemInv(k, ds, {})
  PROVE  /\ IsFiniteSet(PageFrames(k))
         /\ Cardinality({a \in Entries : k.pte[a] # 0}) = Cardinality(PageFrames(k))
<1> DEFINE fs == PageFrames(k)
           present == {a \in Entries : k.pte[a] # 0}
           owner == [f \in fs |-> k.owner[f]]
<1>1. /\ \A f \in fs : f \in Frames /\ k.owner[f] \in Entries /\ k.pte[k.owner[f]] = f /\ f # 0
      /\ \A a \in present : /\ a \in Entries /\ k.pte[a] \in Frames
                            /\ k.owner[k.pte[a]] = a /\ k.pte[a] \in fs
  <2>1. k.pte \in [Entries -> 0..NumFrames]
    BY RamTypes DEF MemInv
  <2>2. \A a \in present : k.pte[a] \in Frames
    BY <2>1 DEF Frames, MmuAssumption
  <2> QED
    BY <2>2, Distinct DEF MemInv, Granted, Pointers, PageFrames
<1>2. IsFiniteSet(fs)
  <2>1. IsFiniteSet(1..NumFrames)
    BY FS_Interval DEF MmuAssumption
  <2>2. fs \in SUBSET (1..NumFrames)
    BY DEF PageFrames, Frames
  <2> QED
    BY <2>1, <2>2, FS_Subset
<1> HIDE DEF fs
<1>3. owner \in Bijection(fs, present)
  <2>1. owner \in [fs -> present]
    BY <1>1
  <2>2. \A f, g \in fs : owner[f] = owner[g] => f = g
    BY <1>1
  <2>3. \A a \in present : \E f \in fs : owner[f] = a
    BY <1>1
  <2> HIDE DEF owner, present
  <2>4. owner \in Injection(fs, present)
    BY <2>1, <2>2 DEF Injection, IsInjective
  <2>5. owner \in Surjection(fs, present)
    BY <2>1, <2>3 DEF Surjection
  <2> QED
    BY <2>4, <2>5 DEF Bijection
<1> HIDE DEF present, owner
<1>4. ExistsBijection(fs, present)
  BY <1>3 DEF ExistsBijection
<1>5. Cardinality(present) = Cardinality(fs)
  BY <1>2, <1>4, FS_Bijection
<1> QED
  BY <1>2, <1>5 DEF fs, present

(* The kernel's records and the tables tell the same. *)
LEMMA Accounted ==
  ASSUME MmuAssumption, MmuInv
  PROVE  FramesAccounted
<1> DEFINE live == Directories
           tables == Tables(ram, live)
           pages == {f \in Frames : \E a \in tables \X Indexes :
                       ram.pte[a] = f /\ ram.owner[f] = a}
           present == {a \in Entries : ram.pte[a] # 0}
           pinned == {f \in Frames : ram.owner[f] = Pinned}
<1>1. /\ MemInv(ram, live, {}) /\ ram \in Rams /\ live \subseteq Frames
      /\ Pinning(ram, live) /\ live \cap tables = {} /\ Pointers(ram, live)
      /\ Granted(ram, {}) /\ Files(ram, live)
  BY DEF MmuInv, MemInv, Trees
<1>2. tables \subseteq Frames
  <2> HIDE DEF live
  <2> QED
    BY <1>1, TablesAre
<1>3. pinned = live \cup tables
  BY <1>1, <1>2 DEF Pinning
<1>4. PageFrames(ram) = pages
  <2>1. ASSUME NEW f \in PageFrames(ram) PROVE f \in pages
    <3>1. f \in Frames /\ ram.owner[f] \in Entries /\ ram.pte[ram.owner[f]] = f /\ f # 0
      BY <1>1, Distinct DEF PageFrames, Granted
    <3>2. ram.owner[f][1] \in tables
      BY <1>1, <3>1 DEF Pointers
    <3>3. ram.owner[f] \in tables \X Indexes
      BY <3>1, <3>2 DEF Entries
    <3> QED
      BY <3>1, <3>3
  <2>2. ASSUME NEW f \in pages PROVE f \in PageFrames(ram)
    <3>1. tables \X Indexes \subseteq Entries
      BY <1>2 DEF Entries
    <3> QED
      BY <3>1 DEF PageFrames
  <2> QED
    BY <2>1, <2>2
<1>5. Cardinality(live) + Cardinality(tables) + Cardinality(present)
        = NumFrames - Cardinality(FreeFrames(ram))
  <2> DEFINE free == FreeFrames(ram)
             pf == PageFrames(ram)
  <2>1. Cardinality(present) = Cardinality(pf) /\ IsFiniteSet(pf)
    BY <1>1, PagesCounted
  <2>2. IsFiniteSet(Frames) /\ Cardinality(Frames) = NumFrames /\ NumFrames \in Nat
    <3>1. NumFrames \in Nat /\ 1 \in Int /\ NumFrames \in Int
      BY DEF MmuAssumption
    <3>2. /\ IsFiniteSet(1..NumFrames)
          /\ Cardinality(1..NumFrames) = IF 1 > NumFrames THEN 0 ELSE NumFrames - 1 + 1
      BY <3>1, FS_Interval
    <3> QED
      BY <3>1, <3>2 DEF Frames
  <2>3. IsFiniteSet(live) /\ IsFiniteSet(tables) /\ IsFiniteSet(free)
    <3>1. live \in SUBSET Frames /\ tables \in SUBSET Frames /\ free \in SUBSET Frames
      BY <1>1, <1>2 DEF FreeFrames
    <3> QED
      BY <2>2, <3>1, FS_Subset
  <2>4. /\ Frames = (pinned \cup pf) \cup free
        /\ pinned \cap pf = {} /\ (pinned \cup pf) \cap free = {}
    <3>1. \A f \in Frames : ram.owner[f] \in Entries \cup {Free, Pinned}
      BY <1>1, RamTypes
    <3>2. \A f \in Frames : f \in pinned \/ f \in pf \/ f \in free
      BY <3>1 DEF PageFrames, FreeFrames
    <3>3. pinned \subseteq Frames /\ pf \subseteq Frames /\ free \subseteq Frames
      BY DEF PageFrames, FreeFrames
    <3>4. \A f \in Frames : ~(f \in pinned /\ f \in pf) /\ ~(f \in pf /\ f \in free)
                            /\ ~(f \in pinned /\ f \in free)
      BY Distinct DEF PageFrames, FreeFrames
    <3> HIDE DEF pinned, pf, free
    <3> QED
      BY <3>2, <3>3, <3>4
  <2> HIDE DEF pinned, pf, free, live, tables, present
  <2>5. IsFiniteSet(pinned) /\ Cardinality(pinned) = Cardinality(live) + Cardinality(tables)
    BY <1>1, <1>3, <2>3, DisjointCount
  <2>6. /\ IsFiniteSet(pinned \cup pf)
        /\ Cardinality(pinned \cup pf) = Cardinality(pinned) + Cardinality(pf)
    BY <2>1, <2>4, <2>5, DisjointCount
  <2>7. Cardinality(Frames) = Cardinality(pinned \cup pf) + Cardinality(free)
    BY <2>3, <2>4, <2>6, DisjointCount
  <2>8. /\ Cardinality(live) \in Nat /\ Cardinality(tables) \in Nat /\ Cardinality(pf) \in Nat
        /\ Cardinality(free) \in Nat
    BY <2>1, <2>3, FS_CardinalityType
  <2> QED
    BY <2>1, <2>2, <2>5, <2>6, <2>7, <2>8 DEF free
<1>6. \A a \in Entries : ram.swap[a] # NoFile => a[1] \in tables
  BY <1>1 DEF Files
<1> QED
  BY <1>3, <1>4, <1>5, <1>6 DEF FramesAccounted

(* Whatever the processes do and whatever the kernel evicts: the TLB holds  *)
(* no stale pointer, every frame that is taken serves one place of one      *)
(* process, and all that a process had goes back when it is removed         *)
(* (mmu.c:31,79,235-265).                                                   *)
THEOREM TablesStaySound == ASSUME MmuAssumption PROVE Spec => []TablesSound
<1>1. Init => MmuInv
  BY MmuStarts
<1>2. MmuInv /\ [Next]_vars => MmuInv'
  BY MmuStep
<1>3. MmuInv => TablesSound
  BY Accounted DEF MmuInv, TablesSound
<1> QED
  BY <1>1, <1>2, <1>3, PTL DEF Spec

(* The memory management unit gives every process a private memory: what a  *)
(* read returns is what that process wrote there last, across page faults,  *)
(* evictions to disk, context switches and frames used again                *)
(* (mmu.c:72-144).                                                          *)
THEOREM MmuImplementsPrivateMemory == ASSUME MmuAssumption PROVE Spec => IsPrivateMemory
<1>1. Init => MmuInv /\ Abstract!MemoryInit
  BY MmuStarts
<1>2. MmuInv /\ [Next]_vars => MmuInv' /\ [Abstract!MemoryNext]_<<Memory, reply>>
  BY MmuStep
<1> QED
  BY <1>1, <1>2, PTL DEF Spec, IsPrivateMemory, Abstract!MemorySpec, Memory

(***************************************************************************)
(* The deadlock resistant mutexes of Drm.  What is said of the graph holds  *)
(* as long as no two calls of drm_init have found g to be NULL.             *)
(***************************************************************************)
(* The edges without a request that isCycle has not looked at yet. *)
Tested == edges \ {<<u, want[u]>> : u \in {t \in Threads : pc[t] = "asked"}}

(* No cycle in the resource allocation graph but for that request. *)
Acyclic == ~Lm!isCycle(Tested)

(* One drm_init at a time creates the graph before anything is in it.   *)
InitOrdered ==
  /\ \A d \in Drms : made[d] = "create" => ~created
  /\ ~created => edges = {} /\ \A d \in Drms : made[d] \in {"none", "create"}
  /\ \A d, e \in Drms : made[d] = "create" /\ made[e] = "create" => d = e

(* A drm that drm_init returned is a vertex of g, and so is the thread that *)
(* asks for it.                                                             *)
Vertices ==
  /\ \A d \in Drms : made[d] = "ready" => d \in vertices
  /\ \A t \in Threads : pc[t] \in {"vertex", "asked", "lock", "locked"} => t \in vertices

(* Threads only ask for drms, and those in the first section of drm_wait    *)
(* have global.                                                             *)
InSection == {"known", "vertex", "asked"}
Wanting ==
  \A t \in Threads :
    /\ pc[t] \in InSection \cup {"lock", "locked"} =>
         want[t] \in Drms /\ made[want[t]] = "ready"
    /\ pc[t] \in InSection => global = t

(* Exited threads have released their drms. *)
ExitedHoldNone == \A t \in Threads : pc[t] = "exited" => \A d \in Drms : mtx[d] # t

(* Who went away with global locked had asked for NULL. *)
NullLocksOut ==
  Lm!LockedOut => want[global] \in Drms /\ made[want[global]] = "failed"

(* What holds of a graph that was created once: EdgesTellOwners says what   *)
(* an edge means, Acyclic is what the search maintains.                     *)
GraphSound ==
  /\ Lm!EdgesTellOwners
  /\ ExitedHoldNone
  /\ Acyclic
  /\ InitOrdered
  /\ Vertices
  /\ NullLocksOut

(* The inductive invariant. *)
DrmInv == Lm!TypeOK /\ Wanting /\ (~overlap => GraphSound)

(* Taking edges away opens no cycle. *)
LEMMA FewerEdges ==
  ASSUME NEW E, NEW F, F \subseteq E, ~Lm!isCycle(E)
  PROVE  ~Lm!isCycle(F)
  BY DEF Lm!isCycle

(* An edge into a node without successors closes no cycle. *)
LEMMA EdgeToSink ==
  ASSUME NEW E, NEW x, NEW y, ~Lm!isCycle(E), \A z : <<y, z>> \notin E, x # y
  PROVE  ~Lm!isCycle(E \cup {<<x, y>>})
<1> SUFFICES ASSUME NEW S \in SUBSET (Threads \cup Drms), S # {},
                    \A u \in S : \E v \in S : <<u, v>> \in E \cup {<<x, y>>}
             PROVE  FALSE
  BY DEF Lm!isCycle
<1>1. y \notin S
  OBVIOUS
<1>2. \A u \in S : \E v \in S : <<u, v>> \in E
  BY <1>1
<1> QED
  BY <1>2 DEF Lm!isCycle

(* The initial state satisfies the invariant. *)
LEMMA DrmStarts ==
  ASSUME Lm!DrmAssumption, Lm!Init PROVE DrmInv
<1>1. Lm!TypeOK /\ Wanting
  BY DEF Lm!DrmAssumption, Lm!Init, Lm!TypeOK, Wanting, InSection
<1>2. Lm!EdgesTellOwners /\ ExitedHoldNone /\ InitOrdered /\ Vertices /\ NullLocksOut
  BY DEF Lm!DrmAssumption, Lm!Init, Lm!EdgesTellOwners, ExitedHoldNone, InitOrdered, Vertices,
     NullLocksOut, Lm!LockedOut
<1>3. Acyclic
  BY DEF Lm!Init, Acyclic, Tested, Lm!isCycle
<1> QED
  BY <1>1, <1>2, <1>3 DEF DrmInv, GraphSound

(* Every step keeps the types, whatever drm_init does. *)
LEMMA DrmTypes ==
  ASSUME Lm!DrmAssumption, Lm!TypeOK, Wanting, [Lm!Next]_(Lm!vars)
  PROVE  Lm!TypeOK' /\ Wanting'
<1> USE DEF Lm!DrmAssumption, Lm!TypeOK, Wanting, InSection
<1>1. ASSUME NEW d \in Drms, Lm!InitStep(d) PROVE Lm!TypeOK' /\ Wanting'
  <2>1. CASE Lm!drm_init_test(d)
    BY <2>1 DEF Lm!drm_init_test, Lm!graph
  <2>2. CASE Lm!drm_init_create(d)
    BY <2>2 DEF Lm!drm_init_create
  <2>3. CASE Lm!drm_init_alloc(d)
    BY <2>3 DEF Lm!drm_init_alloc, Lm!graph
  <2>4. CASE Lm!drm_init_add(d)
    BY <2>4 DEF Lm!drm_init_add
  <2> QED
    BY <1>1, <2>1, <2>2, <2>3, <2>4 DEF Lm!InitStep
<1>2. ASSUME NEW t \in Threads, NEW d \in Drms, Lm!drm_wait_unknown(t, d) \/ Lm!drm_wait_known(t, d)
      PROVE  Lm!TypeOK' /\ Wanting'
  BY <1>2 DEF Lm!drm_wait_unknown, Lm!drm_wait_known, Lm!Calls, Lm!graph
<1>3. ASSUME NEW t \in Threads, Lm!InWait(t) PROVE Lm!TypeOK' /\ Wanting'
  <2>1. CASE Lm!drm_wait_vertex(t)
    BY <2>1 DEF Lm!drm_wait_vertex
  <2>2. CASE Lm!drm_wait_owner(t)
    BY <2>2 DEF Lm!drm_wait_owner, Lm!Returns, Lm!graph
  <2>3. CASE Lm!drm_wait_request(t)
    <3>1. edges' \subseteq edges \cup {<<t, want[t]>>} /\ want[t] \in Drms
      BY <2>3 DEF Lm!drm_wait_request, Lm!WithEdge
    <3> QED
      BY <2>3, <3>1 DEF Lm!drm_wait_request
  <2>4. CASE Lm!drm_wait_refuse(t)
    BY <2>4 DEF Lm!drm_wait_refuse, Lm!Returns
  <2>5. CASE Lm!drm_wait_unlock(t)
    BY <2>5 DEF Lm!drm_wait_unlock, Lm!graph
  <2>6. CASE Lm!drm_wait_lock(t)
    BY <2>6 DEF Lm!drm_wait_lock, Lm!graph
  <2>7. CASE Lm!drm_wait_grant(t)
    <3>1. edges' \subseteq edges \cup {<<want[t], t>>} /\ want[t] \in Drms
      BY <2>7 DEF Lm!drm_wait_grant, Lm!GrantEdges, Lm!WithEdge
    <3> QED
      BY <2>7, <3>1 DEF Lm!drm_wait_grant, Lm!Returns
  <2> QED
    BY <1>3, <2>1, <2>2, <2>3, <2>4, <2>5, <2>6, <2>7 DEF Lm!InWait
<1>4. ASSUME NEW t \in Threads, NEW d \in Drms, Lm!drm_post(t, d)
      PROVE  Lm!TypeOK' /\ Wanting'
  BY <1>4 DEF Lm!drm_post
<1>5. ASSUME NEW t \in Threads, Lm!Exit(t) PROVE Lm!TypeOK' /\ Wanting'
  BY <1>5 DEF Lm!Exit, Lm!graph
<1>6. ASSUME NEW d \in Drms, Lm!drm_destroy(d) PROVE Lm!TypeOK' /\ Wanting'
  BY <1>6 DEF Lm!drm_destroy
<1>7. CASE UNCHANGED Lm!vars
  BY <1>7 DEF Lm!vars
<1> QED
  BY <1>1, <1>2, <1>3, <1>4, <1>5, <1>6, <1>7 DEF Lm!Next

(* The part of the invariant that is not about edges, for steps of drm_init *)
(* after which no two calls have found g to be NULL.                        *)
LEMMA DrmInitSound ==
  ASSUME Lm!DrmAssumption, Lm!TypeOK, Wanting, GraphSound, NEW d \in Drms, Lm!InitStep(d),
         ~overlap'
  PROVE  GraphSound'
<1> USE DEF Lm!DrmAssumption, GraphSound
<1>1. edges' = edges /\ UNCHANGED <<global, mtx, pc, want>>
  BY DEF Lm!InitStep, Lm!drm_init_test, Lm!drm_init_create, Lm!drm_init_alloc, Lm!drm_init_add,
     Lm!graph, InitOrdered
<1>2. ExitedHoldNone' /\ Lm!EdgesTellOwners'
  BY <1>1 DEF ExitedHoldNone, Lm!EdgesTellOwners
<1>3. Acyclic'
  BY <1>1 DEF Acyclic, Tested
<1>4. InitOrdered'
  <2>1. CASE Lm!drm_init_test(d)
    <3>1. CASE created
      BY <2>1, <3>1 DEF Lm!drm_init_test, InitOrdered, Lm!graph, Lm!TypeOK
    <3>2. CASE ~created
      BY <2>1, <3>2 DEF Lm!drm_init_test, InitOrdered, Lm!graph, Lm!TypeOK
    <3> QED
      BY <3>1, <3>2
  <2>2. CASE Lm!drm_init_create(d)
    BY <2>2 DEF Lm!drm_init_create, InitOrdered, Lm!TypeOK
  <2>3. CASE Lm!drm_init_alloc(d)
    BY <2>3 DEF Lm!drm_init_alloc, Lm!graph, InitOrdered, Lm!TypeOK
  <2>4. CASE Lm!drm_init_add(d)
    BY <2>4 DEF Lm!drm_init_add, InitOrdered, Lm!TypeOK
  <2> QED
    BY <2>1, <2>2, <2>3, <2>4 DEF Lm!InitStep
<1>5. Vertices'
  <2>1. CASE Lm!drm_init_test(d)
    BY <1>1, <2>1 DEF Lm!drm_init_test, Lm!graph, Vertices, Lm!TypeOK
  <2>2. CASE Lm!drm_init_create(d)
    <3>1. ~created /\ \A e \in Drms : made[e] \in {"none", "create"}
      BY <2>2 DEF Lm!drm_init_create, InitOrdered
    <3>2. \A t \in Threads : pc[t] \notin {"vertex", "asked", "lock", "locked"}
      BY <3>1 DEF Wanting, InSection
    <3> QED
      BY <1>1, <2>2, <3>1, <3>2 DEF Lm!drm_init_create, Vertices, Lm!TypeOK
  <2>3. CASE Lm!drm_init_alloc(d)
    BY <1>1, <2>3 DEF Lm!drm_init_alloc, Lm!graph, Vertices, Lm!TypeOK
  <2>4. CASE Lm!drm_init_add(d)
    BY <1>1, <2>4 DEF Lm!drm_init_add, Vertices, Lm!TypeOK
  <2> QED
    BY <2>1, <2>2, <2>3, <2>4 DEF Lm!InitStep
<1>6. NullLocksOut'
  <2>1. \A e \in Drms : made[e] = "failed" => made'[e] = "failed"
    BY DEF Lm!InitStep, Lm!drm_init_test, Lm!drm_init_create, Lm!drm_init_alloc, Lm!drm_init_add,
       Lm!TypeOK
  <2> QED
    BY <1>1, <2>1 DEF NullLocksOut, Lm!LockedOut
<1> QED
  BY <1>2, <1>3, <1>4, <1>5, <1>6

(* A step of drm_wait keeps the graph sound. *)
LEMMA DrmWaitSound ==
  ASSUME Lm!DrmAssumption, Lm!TypeOK, Wanting, GraphSound, NEW t \in Threads, Lm!InWait(t)
  PROVE  GraphSound'
<1> USE DEF Lm!DrmAssumption, GraphSound, InSection
<1> DEFINE d == want[t]
<1>0. d \in Drms /\ made[d] = "ready"
  BY DEF Lm!InWait, Lm!drm_wait_vertex, Lm!drm_wait_owner, Lm!drm_wait_request, Lm!drm_wait_refuse,
     Lm!drm_wait_unlock, Lm!drm_wait_lock, Lm!drm_wait_grant, Wanting
<1>00. made' = made /\ created' = created
  BY DEF Lm!InWait, Lm!drm_wait_vertex, Lm!drm_wait_owner, Lm!drm_wait_request, Lm!drm_wait_refuse,
     Lm!drm_wait_unlock, Lm!drm_wait_lock, Lm!drm_wait_grant, Lm!graph
<1>01. created
  BY <1>0 DEF InitOrdered
<1>02. InitOrdered'
  BY <1>00, <1>01 DEF InitOrdered
<1>03. global = t => \A u \in Threads : pc[u] = "asked" => u = t
  BY DEF Wanting
<1>1. CASE Lm!drm_wait_vertex(t)
  <2>1. /\ pc[t] = "known" /\ vertices' = vertices \cup {t} /\ pc' = [pc EXCEPT ![t] = "vertex"]
        /\ UNCHANGED <<edges, global, mtx, want>> /\ global = t
    BY <1>1 DEF Lm!drm_wait_vertex, Wanting
  <2>2. ExitedHoldNone' /\ Lm!EdgesTellOwners' /\ Vertices' /\ NullLocksOut'
    BY <1>00, <2>1 DEF Lm!TypeOK, ExitedHoldNone, Lm!EdgesTellOwners, Vertices, NullLocksOut,
       Lm!LockedOut
  <2>3. Acyclic'
    <3>1. Tested' = Tested
      BY <2>1 DEF Tested, Lm!TypeOK
    <3> QED
      BY <3>1 DEF Acyclic
  <2> QED
    BY <1>02, <2>2, <2>3
<1>2. CASE Lm!drm_wait_owner(t)
  <2>1. /\ pc[t] = "vertex" /\ pc' = [pc EXCEPT ![t] = "idle"]
        /\ want' = [want EXCEPT ![t] = Nobody] /\ global' = Nobody /\ global = t
        /\ UNCHANGED <<vertices, edges, mtx>>
    BY <1>2 DEF Lm!drm_wait_owner, Lm!Returns, Lm!graph, Wanting
  <2>2. ExitedHoldNone' /\ Lm!EdgesTellOwners' /\ Vertices' /\ NullLocksOut'
    BY <1>00, <2>1 DEF Lm!TypeOK, ExitedHoldNone, Lm!EdgesTellOwners, Vertices, NullLocksOut,
       Lm!LockedOut
  <2>3. Acyclic'
    <3>1. Tested' = edges /\ Tested = edges
      BY <1>03, <2>1 DEF Tested, Lm!TypeOK
    <3> QED
      BY <3>1 DEF Acyclic
  <2> QED
    BY <1>02, <2>2, <2>3
<1>3. CASE Lm!drm_wait_request(t)
  <2>1. /\ pc[t] = "vertex" /\ pc' = [pc EXCEPT ![t] = "asked"] /\ global = t
        /\ edges' = edges \cup {<<t, d>>}
        /\ UNCHANGED <<vertices, global, mtx, want>>
    BY <1>0, <1>3 DEF Lm!drm_wait_request, Lm!WithEdge, Wanting, Vertices
  <2>2. Lm!EdgesTellOwners'
    <3>1. \A e \in Drms, u \in Threads : (<<e, u>> \in edges') <=> (<<e, u>> \in edges)
      BY <1>0, <2>1
    <3>2. \A e \in Drms, u \in Threads :
             (<<u, e>> \in edges') <=> (<<u, e>> \in edges \/ (u = t /\ e = d))
      BY <2>1
    <3> QED
      BY <2>1, <3>1, <3>2 DEF Lm!EdgesTellOwners, Lm!TypeOK
  <2>3. ExitedHoldNone' /\ Vertices' /\ NullLocksOut'
    BY <1>00, <2>1 DEF Lm!TypeOK, ExitedHoldNone, Vertices, NullLocksOut, Lm!LockedOut
  <2>4. Acyclic'
    <3>1. Tested = edges
      BY <1>03, <2>1 DEF Tested
    <3>2. pc'[t] = "asked" /\ want'[t] = d
      BY <2>1 DEF Lm!TypeOK
    <3>3. Tested' \subseteq edges
      BY <2>1, <3>2 DEF Tested
    <3> QED
      BY <3>1, <3>3, FewerEdges DEF Acyclic
  <2> QED
    BY <1>02, <2>2, <2>3, <2>4
<1>4. CASE Lm!drm_wait_refuse(t)
  <2>1. /\ pc[t] = "asked" /\ pc' = [pc EXCEPT ![t] = "idle"]
        /\ want' = [want EXCEPT ![t] = Nobody] /\ global' = Nobody /\ global = t
        /\ edges' = edges \ {<<t, d>>}
        /\ UNCHANGED <<vertices, mtx>>
    BY <1>4 DEF Lm!drm_wait_refuse, Lm!Returns, Wanting
  <2>2. Lm!EdgesTellOwners'
    <3>1. \A e \in Drms, u \in Threads : (<<e, u>> \in edges') <=> (<<e, u>> \in edges)
      BY <1>0, <2>1
    <3>2. \A e \in Drms, u \in Threads :
             (<<u, e>> \in edges') <=> (<<u, e>> \in edges /\ ~(u = t /\ e = d))
      BY <2>1
    <3> QED
      BY <2>1, <3>1, <3>2 DEF Lm!EdgesTellOwners, Lm!TypeOK
  <2>3. ExitedHoldNone' /\ Vertices' /\ NullLocksOut'
    BY <1>00, <2>1 DEF Lm!TypeOK, ExitedHoldNone, Vertices, NullLocksOut, Lm!LockedOut
  <2>4. Acyclic'
    <3>1. Tested = edges \ {<<t, d>>}
      BY <1>03, <2>1 DEF Tested
    <3>2. Tested' \subseteq edges'
      BY DEF Tested
    <3> QED
      BY <2>1, <3>1, <3>2, FewerEdges DEF Acyclic
  <2> QED
    BY <1>02, <2>2, <2>3, <2>4
<1>5. CASE Lm!drm_wait_unlock(t)
  <2>1. /\ pc[t] = "asked" /\ pc' = [pc EXCEPT ![t] = "lock"] /\ global' = Nobody
        /\ ~Lm!isCycle(edges)
        /\ UNCHANGED <<vertices, edges, mtx, want>>
    BY <1>5 DEF Lm!drm_wait_unlock, Lm!Search, Lm!graph
  <2>2. ExitedHoldNone' /\ Lm!EdgesTellOwners' /\ Vertices' /\ NullLocksOut'
    BY <1>00, <2>1 DEF Lm!TypeOK, ExitedHoldNone, Lm!EdgesTellOwners, Vertices, NullLocksOut,
       Lm!LockedOut
  <2>3. Acyclic'
    <3>1. Tested' \subseteq edges
      BY <2>1 DEF Tested
    <3> QED
      BY <2>1, <3>1, FewerEdges DEF Acyclic
  <2> QED
    BY <1>02, <2>2, <2>3
<1>6. CASE Lm!drm_wait_lock(t)
  <2>1. /\ pc[t] = "lock" /\ pc' = [pc EXCEPT ![t] = "locked"]
        /\ mtx[d] = Nobody /\ mtx' = [mtx EXCEPT ![d] = t]
        /\ UNCHANGED <<vertices, edges, global, want>>
    BY <1>6 DEF Lm!drm_wait_lock, Lm!graph
  <2>2. ExitedHoldNone' /\ Vertices' /\ NullLocksOut'
    BY <1>0, <1>00, <2>1 DEF Lm!TypeOK, ExitedHoldNone, Vertices, NullLocksOut, Lm!LockedOut
  <2>3. Lm!EdgesTellOwners'
    BY <1>0, <2>1 DEF Lm!TypeOK, Lm!EdgesTellOwners
  <2>4. Acyclic'
    <3>1. Tested' = Tested
      BY <2>1 DEF Tested, Lm!TypeOK
    <3> QED
      BY <3>1 DEF Acyclic
  <2> QED
    BY <1>02, <2>2, <2>3, <2>4
<1>7. CASE Lm!drm_wait_grant(t)
  <2>1. /\ pc[t] = "locked" /\ mtx[d] = t /\ global = Nobody
        /\ edges' = (edges \ {<<t, d>>}) \cup {<<d, t>>}
        /\ pc' = [pc EXCEPT ![t] = "idle"] /\ want' = [want EXCEPT ![t] = Nobody]
        /\ UNCHANGED <<vertices, global, mtx>>
    BY <1>0, <1>7 DEF Lm!drm_wait_grant, Lm!GrantEdges, Lm!WithEdge, Lm!Returns, Vertices,
       Lm!EdgesTellOwners
  <2>2. ExitedHoldNone' /\ Vertices' /\ NullLocksOut'
    BY <1>00, <2>1 DEF Lm!TypeOK, ExitedHoldNone, Vertices, NullLocksOut, Lm!LockedOut
  <2>3. Lm!EdgesTellOwners'
    <3>1. \A e \in Drms, u \in Threads :
             (<<e, u>> \in edges') <=> (<<e, u>> \in edges \/ (u = t /\ e = d))
      BY <1>0, <2>1
    <3>2. \A e \in Drms, u \in Threads :
             (<<u, e>> \in edges') <=> (<<u, e>> \in edges /\ ~(u = t /\ e = d))
      BY <1>0, <2>1
    <3> HIDE DEF d
    <3> QED
      BY <1>0, <2>1, <3>1, <3>2 DEF Lm!EdgesTellOwners, Lm!TypeOK, d
  <2>4. Acyclic'
    <3>0. Tested = edges /\ Tested' \subseteq edges'
      <4>1. \A u \in Threads : pc[u] # "asked"
        BY <2>1 DEF Wanting
      <4> QED
        BY <4>1 DEF Tested
    <3>1. ~Lm!isCycle(edges \ {<<t, d>>})
      BY <3>0, FewerEdges DEF Acyclic
    <3>2. \A z : <<t, z>> \notin edges \ {<<t, d>>}
      <4> SUFFICES ASSUME NEW z, <<t, z>> \in edges PROVE z = d
        OBVIOUS
      <4>1. z \in Drms
        BY DEF Lm!TypeOK
      <4> QED
        BY <4>1 DEF Lm!EdgesTellOwners
    <3>3. d # t
      BY <1>0
    <3>4. ~Lm!isCycle(edges')
      BY <2>1, <3>1, <3>2, <3>3, EdgeToSink
    <3> QED
      BY <3>0, <3>4, FewerEdges DEF Acyclic
  <2> QED
    BY <1>02, <2>2, <2>3, <2>4
<1> QED
  BY <1>1, <1>2, <1>3, <1>4, <1>5, <1>6, <1>7 DEF Lm!InWait

(* A step after which no two calls of drm_init have found g to be NULL      *)
(* keeps the graph sound.                                                   *)
LEMMA DrmSound ==
  ASSUME Lm!DrmAssumption, Lm!TypeOK, Wanting, GraphSound, [Lm!Next]_(Lm!vars), ~overlap'
  PROVE  GraphSound'
<1> USE DEF Lm!DrmAssumption, GraphSound
<1>1. ASSUME NEW t \in Threads, NEW d \in Drms,
             Lm!drm_wait_unknown(t, d) \/ Lm!drm_wait_known(t, d)
      PROVE  GraphSound'
  <2>1. /\ pc[t] = "idle" /\ global = Nobody /\ global' = t
        /\ want' = [want EXCEPT ![t] = d]
        /\ \/ made[d] = "failed" /\ pc' = pc
           \/ made[d] = "ready" /\ pc' = [pc EXCEPT ![t] = "known"]
        /\ UNCHANGED <<made, created, vertices, edges, mtx>>
    BY <1>1 DEF Lm!drm_wait_unknown, Lm!drm_wait_known, Lm!Calls, Lm!graph, Vertices
  <2>2. ExitedHoldNone' /\ Lm!EdgesTellOwners' /\ Vertices' /\ InitOrdered'
    BY <2>1 DEF Lm!TypeOK, ExitedHoldNone, Lm!EdgesTellOwners, Vertices, InitOrdered
  <2>3. NullLocksOut'
    BY <2>1 DEF Lm!TypeOK, NullLocksOut, Lm!LockedOut
  <2>4. Acyclic'
    <3>1. Tested' = Tested
      BY <2>1 DEF Tested, Lm!TypeOK
    <3> QED
      BY <3>1 DEF Acyclic
  <2> QED
    BY <2>2, <2>3, <2>4
<1>2. ASSUME NEW t \in Threads, NEW d \in Drms, Lm!drm_post(t, d) PROVE GraphSound'
  <2>1. /\ mtx' = [mtx EXCEPT ![d] = Nobody] /\ edges' = edges \ {<<d, t>>}
        /\ pc[t] = "idle" /\ <<d, t>> \in edges /\ mtx[d] = t
        /\ UNCHANGED <<made, created, vertices, global, pc, want>>
    BY <1>2 DEF Lm!drm_post, Lm!Calls, Lm!IsOwner, Lm!EdgesTellOwners
  <2>2. Lm!EdgesTellOwners'
    <3>1. \A e \in Drms, u \in Threads :
             (<<e, u>> \in edges') <=> (<<e, u>> \in edges /\ ~(u = t /\ e = d))
      BY <2>1
    <3>2. \A e \in Drms, u \in Threads : (<<u, e>> \in edges') <=> (<<u, e>> \in edges)
      BY <2>1
    <3> QED
      BY <2>1, <3>1, <3>2 DEF Lm!EdgesTellOwners, Lm!TypeOK
  <2>3. ExitedHoldNone' /\ InitOrdered' /\ Vertices' /\ NullLocksOut'
    BY <2>1 DEF Lm!TypeOK, ExitedHoldNone, InitOrdered, Vertices, NullLocksOut, Lm!LockedOut
  <2>4. Acyclic'
    <3>1. Tested' \subseteq Tested
      BY <2>1 DEF Tested
    <3> QED
      BY <3>1, FewerEdges DEF Acyclic
  <2> QED
    BY <2>2, <2>3, <2>4
<1>3. ASSUME NEW t \in Threads, Lm!Exit(t) PROVE GraphSound'
  <2>1. /\ pc[t] = "idle" /\ pc' = [pc EXCEPT ![t] = "exited"]
        /\ \A d \in Drms : <<d, t>> \notin edges
        /\ UNCHANGED <<made, created, vertices, edges, global, mtx, want>>
    BY <1>3 DEF Lm!Exit, Lm!graph
  <2>2. \A d \in Drms : mtx[d] # t
    BY <2>1 DEF Lm!EdgesTellOwners
  <2>3. ExitedHoldNone' /\ InitOrdered' /\ Vertices'
    BY <2>1, <2>2 DEF Lm!TypeOK, ExitedHoldNone, InitOrdered, Vertices
  <2>4. Lm!EdgesTellOwners' /\ NullLocksOut'
    BY <2>1 DEF Lm!TypeOK, Lm!EdgesTellOwners, NullLocksOut, Lm!LockedOut
  <2>5. Acyclic'
    <3>1. Tested' = Tested
      BY <2>1 DEF Tested, Lm!TypeOK
    <3> QED
      BY <3>1 DEF Acyclic
  <2> QED
    BY <2>3, <2>4, <2>5
<1>4. ASSUME NEW d \in Drms, Lm!drm_destroy(d) PROVE GraphSound'
  <2>0. /\ \A t \in Threads : pc[t] = "exited"
        /\ made[d] = "ready" /\ made' = [made EXCEPT ![d] = "destroyed"]
        /\ vertices' = vertices \ {d} /\ edges' \subseteq edges
        /\ UNCHANGED <<created, global, mtx, pc, want>>
    BY <1>4 DEF Lm!drm_destroy
  <2>1. edges = {}
    <3> SUFFICES ASSUME NEW e \in edges PROVE FALSE
      OBVIOUS
    <3>1. CASE e \in Threads \X Drms
      <4>1. PICK t \in Threads, x \in Drms : e = <<t, x>>
        BY <3>1
      <4> QED
        BY <2>0, <4>1 DEF Lm!EdgesTellOwners
    <3>2. CASE e \in Drms \X Threads
      <4>1. PICK x \in Drms, t \in Threads : e = <<x, t>>
        BY <3>2
      <4> QED
        BY <2>0, <4>1 DEF Lm!EdgesTellOwners, ExitedHoldNone
    <3> QED
      BY <3>1, <3>2 DEF Lm!TypeOK
  <2>2. edges' = edges
    BY <2>0, <2>1
  <2>3. ExitedHoldNone' /\ Lm!EdgesTellOwners' /\ Vertices'
    BY <2>0, <2>2 DEF Lm!TypeOK, ExitedHoldNone, Lm!EdgesTellOwners, Vertices
  <2>4. Acyclic'
    BY <2>0, <2>2 DEF Acyclic, Tested
  <2>5. InitOrdered' /\ NullLocksOut'
    BY <2>0, <2>2 DEF InitOrdered, NullLocksOut, Lm!LockedOut, Lm!TypeOK
  <2> QED
    BY <2>3, <2>4, <2>5
<1>5. CASE UNCHANGED Lm!vars
  BY <1>5 DEF Lm!vars, ExitedHoldNone, Lm!EdgesTellOwners, Acyclic, Tested, InitOrdered,
     Vertices, NullLocksOut, Lm!LockedOut
<1> QED
  BY <1>1, <1>2, <1>3, <1>4, <1>5, DrmInitSound, DrmWaitSound DEF Lm!Next

(* What the invariant says of blocked threads: their requests and the       *)
(* ownership they wait for are edges.                                       *)
LEMMA BlockedEdges ==
  ASSUME Lm!TypeOK, Wanting, GraphSound,
         NEW v \in Threads, NEW u \in Threads, Lm!BlockedBy(v, u), pc[u] # "locked"
  PROVE  want[v] \in Drms /\ <<v, want[v]>> \in edges /\ <<want[v], u>> \in edges
  BY DEF GraphSound, Lm!BlockedBy, Wanting, Lm!EdgesTellOwners

(* The invariant excludes a circle of blocked threads. *)
LEMMA InvDeadlockFree ==
  ASSUME Lm!DrmAssumption PROVE DrmInv => Lm!DeadlockFree
<1> SUFFICES ASSUME Lm!TypeOK, Wanting, GraphSound, NEW S \in SUBSET Threads, S # {},
                    \A t \in S : \E u \in S : Lm!BlockedBy(t, u)
             PROVE  FALSE
  BY DEF DrmInv, Lm!DeadlockFree
<1> DEFINE C == S \cup {want[t] : t \in S}
<1>1. \A u \in S : pc[u] # "locked"
  BY DEF Lm!BlockedBy
<1>2. C \in SUBSET (Threads \cup Drms) /\ C # {}
  BY <1>1, BlockedEdges
<1>3. ASSUME NEW x \in C PROVE \E y \in C : <<x, y>> \in edges /\ (x \in S \/ x \in Drms)
  <2>1. CASE x \in S
    BY <1>1, <2>1, BlockedEdges
  <2>2. CASE x \notin S
    <3>1. PICK t \in S : x = want[t]
      BY <2>2
    <3>2. PICK u \in S : Lm!BlockedBy(t, u)
      OBVIOUS
    <3>3. <<want[t], u>> \in edges /\ want[t] \in Drms
      BY <1>1, <3>2, BlockedEdges
    <3> QED
      BY <3>1, <3>3
  <2> QED
    BY <2>1, <2>2
<1>4. ASSUME NEW x, x \in S \/ x \in Drms, NEW y, <<x, y>> \in edges PROVE <<x, y>> \in Tested
  <2>1. x \in Threads => pc[x] # "asked"
    BY <1>4 DEF Lm!BlockedBy, Lm!DrmAssumption
  <2> QED
    BY <1>4, <2>1 DEF Tested
<1>5. \A x \in C : \E y \in C : <<x, y>> \in Tested
  <2> HIDE DEF C
  <2> QED
    BY <1>3, <1>4
<1> QED
  BY <1>2, <1>5 DEF GraphSound, Acyclic, Lm!isCycle

(* The invariant makes the cycle test exact. *)
LEMMA InvRefusesExactly ==
  ASSUME Lm!DrmAssumption PROVE DrmInv => Lm!RefusesExactly
<1> SUFFICES ASSUME Lm!TypeOK, Wanting, GraphSound, NEW t \in Threads, pc[t] = "asked"
             PROVE  Lm!isCycle(edges) <=> Lm!WouldDeadlock(t, want[t])
  BY DEF DrmInv, Lm!RefusesExactly, Lm!Search
<1> DEFINE d == want[t]
<1>0. d \in Drms /\ <<t, d>> \in edges /\ Tested = edges \ {<<t, d>>}
  BY DEF Wanting, InSection, GraphSound, Lm!EdgesTellOwners, Tested
<1> HIDE DEF d
<1>1. ASSUME Lm!WouldDeadlock(t, d) PROVE Lm!isCycle(edges)
  <2>1. PICK S \in SUBSET Threads :
          /\ t \in S
          /\ \E u \in S : mtx[d] = u
          /\ \A v \in S \ {t} : \E u \in S : Lm!BlockedBy(v, u)
    BY <1>1 DEF Lm!WouldDeadlock
  <2> DEFINE C == S \cup {d} \cup {want[v] : v \in S \ {t}}
  <2>2. \A u \in S : pc[u] # "locked"
    BY <2>1 DEF Lm!BlockedBy
  <2>3. \A v \in S \ {t} : want[v] \in Drms /\ <<v, want[v]>> \in edges
    BY <2>1, <2>2, BlockedEdges
  <2>4. C \in SUBSET (Threads \cup Drms) /\ C # {}
    BY <1>0, <2>1, <2>3
  <2>5. \A x \in C : \E y \in C : <<x, y>> \in edges
    <3> TAKE x \in C
    <3>1. CASE x = t
      BY <1>0, <3>1
    <3>2. CASE x \in S \ {t}
      BY <2>3, <3>2
    <3>3. CASE x = d
      <4>1. PICK u \in S : mtx[d] = u
        BY <2>1
      <4>2. <<d, u>> \in edges
        BY <1>0, <2>2, <4>1 DEF GraphSound, Lm!EdgesTellOwners
      <4> QED
        BY <3>3, <4>2
    <3>4. ASSUME NEW v \in S \ {t}, x = want[v]
          PROVE  \E y \in C : <<x, y>> \in edges
      <4>1. PICK u \in S : Lm!BlockedBy(v, u)
        BY <2>1
      <4>2. <<want[v], u>> \in edges
        BY <2>2, <4>1, BlockedEdges
      <4> QED
        BY <3>4, <4>2
    <3> QED
      BY <3>1, <3>2, <3>3, <3>4
  <2> QED
    BY <2>4, <2>5 DEF Lm!isCycle
<1>2. ASSUME Lm!isCycle(edges) PROVE Lm!WouldDeadlock(t, d)
  <2>1. PICK C \in SUBSET (Threads \cup Drms) :
          C # {} /\ \A x \in C : \E y \in C : <<x, y>> \in edges
    BY <1>2 DEF Lm!isCycle
  <2> DEFINE S == C \cap Threads
  <2>2. t \in C
    <3> SUFFICES ASSUME t \notin C PROVE FALSE
      OBVIOUS
    <3>1. \A x \in C : \E y \in C : <<x, y>> \in Tested
      BY <1>0, <2>1
    <3> QED
      BY <2>1, <3>1 DEF GraphSound, Acyclic, Lm!isCycle
  <2>3. \A y : <<t, y>> \in edges => y = d
    <3> SUFFICES ASSUME NEW y, <<t, y>> \in edges PROVE y = d
      OBVIOUS
    <3>1. y \in Drms
      BY DEF Lm!DrmAssumption, Lm!TypeOK
    <3> QED
      BY <3>1 DEF GraphSound, Lm!EdgesTellOwners, d
  <2>4. d \in C
    BY <2>1, <2>2, <2>3
  <2>5. ASSUME NEW x \in C, x \in Drms
        PROVE  \E u \in S : <<x, u>> \in edges /\ mtx[x] = u
    <3>1. PICK y \in C : <<x, y>> \in edges
      BY <2>1
    <3>3. y \in Threads
      BY <2>5, <3>1 DEF Lm!DrmAssumption, Lm!TypeOK
    <3> QED
      BY <2>5, <3>1, <3>3 DEF GraphSound, Lm!EdgesTellOwners
  <2>6. ASSUME NEW v \in S \ {t} PROVE \E u \in S : Lm!BlockedBy(v, u)
    <3>1. PICK y \in C : <<v, y>> \in edges
      BY <2>1
    <3>2. y \in Drms
      BY <3>1 DEF Lm!DrmAssumption, Lm!TypeOK
    <3>3. pc[v] \in {"asked", "lock", "locked"} /\ want[v] = y
      BY <3>1, <3>2 DEF GraphSound, Lm!EdgesTellOwners
    <3>4. PICK u \in S : <<y, u>> \in edges /\ mtx[y] = u
      BY <2>5, <3>2
    <3>5. pc[v] # "asked"
      BY DEF Wanting, InSection
    <3>6. pc[v] = "lock"
      BY <3>2, <3>3, <3>4, <3>5 DEF GraphSound, Lm!EdgesTellOwners
    <3> QED
      BY <3>3, <3>4, <3>6 DEF Lm!BlockedBy
  <2>7. \E u \in S : mtx[d] = u
    BY <1>0, <2>4, <2>5
  <2> QED
    BY <2>2, <2>6, <2>7 DEF Lm!WouldDeadlock
<1> QED
  BY <1>1, <1>2 DEF d

(* The invariant holds in every reachable state. *)
LEMMA DrmInvariance ==
  ASSUME Lm!DrmAssumption PROVE Lm!Spec => []DrmInv
<1>1. DrmInv /\ [Lm!Next]_(Lm!vars) => DrmInv'
  <2> SUFFICES ASSUME DrmInv, [Lm!Next]_(Lm!vars) PROVE DrmInv'
    OBVIOUS
  <2>1. Lm!TypeOK' /\ Wanting'
    BY DrmTypes DEF DrmInv
  <2>2. overlap => overlap'
    BY ZenonT(60)
       DEF Lm!Next, Lm!vars, Lm!InitStep, Lm!drm_init_test, Lm!drm_init_create, Lm!drm_init_alloc,
           Lm!drm_init_add, Lm!drm_wait_unknown, Lm!drm_wait_known, Lm!InWait,
           Lm!drm_wait_vertex, Lm!drm_wait_owner, Lm!drm_wait_request, Lm!drm_wait_refuse,
           Lm!drm_wait_unlock, Lm!drm_wait_lock, Lm!drm_wait_grant, Lm!drm_post, Lm!Exit,
           Lm!drm_destroy
  <2>3. ~overlap' => GraphSound'
    BY <2>2, DrmSound DEF DrmInv
  <2> QED
    BY <2>1, <2>3 DEF DrmInv
<1> QED
  BY <1>1, DrmStarts, PTL DEF Lm!Spec

(* Every reachable state has its type. *)
THEOREM DrmTypeCorrect ==
  ASSUME Lm!DrmAssumption PROVE Lm!Spec => []Lm!TypeOK
<1>1. DrmInv => Lm!TypeOK
  BY DEF DrmInv
<1> QED
  BY <1>1, DrmInvariance, PTL

(* Until two calls of drm_init have found g to be NULL, the edges of g and  *)
(* the owners of the mutexes differ only inside the window of drm_wait, and *)
(* a drm_wait goes away with global locked only for a NULL drm.             *)
THEOREM GraphIsAccurate ==
  ASSUME Lm!DrmAssumption PROVE Lm!Spec => []GraphAgrees
<1>1. DrmInv => Lm!GraphAgrees
  BY DEF DrmInv, GraphSound, Lm!GraphAgrees, Vertices, NullLocksOut
<1> QED
  BY <1>1, DrmInvariance, PTL DEF GraphAgrees

(* Until two calls of drm_init have found g to be NULL, threads never block *)
(* one another in a circle.                                                 *)
THEOREM NoDeadlock ==
  ASSUME Lm!DrmAssumption PROVE Lm!Spec => []DeadlockFree
  BY InvDeadlockFree, DrmInvariance, PTL DEF DeadlockFree

(* Until two calls of drm_init have found g to be NULL, drm_wait refuses    *)
(* exactly the requests that would deadlock.                                *)
THEOREM ExactRefusal ==
  ASSUME Lm!DrmAssumption PROVE Lm!Spec => []RefusesExactly
  BY InvRefusesExactly, DrmInvariance, PTL DEF RefusesExactly

(***************************************************************************)
(* The copy of dd, Dd.  Between two blocks all that was read is in the      *)
(* output and the counts say so; the arithmetic of blocks stands on its own.*)
(***************************************************************************)
Bs == opt.block_size
From == opt.input_offset * Bs

(* The bytes of the input from one place on, up to another. *)
Run(from, upto) == [j \in 1..(IF upto > from THEN upto - from ELSE 0) |-> from + j]

(* Where the block behind the first n ends in the input. *)
Past(n) ==
  LET start == From + n * Bs
  IN IF start + Bs < opt.length THEN start + Bs ELSE opt.length

(* What the output is when the input was copied up to a place. *)
Copied(upto) == Copy!Zeros(opt.output_offset * Bs) \o Run(From, upto)

(* Before the first write the seek has left nothing in it.                  *)
InFile(upto) == IF upto > From THEN Copied(upto) ELSE <<>>

(* What it is when all that was asked for was copied. *)
Whole == IF Copy!Wanted = <<>> THEN <<>>
         ELSE Copy!Zeros(opt.output_offset * Bs) \o Copy!Wanted

(* dd has not come to the number of blocks it was asked for. *)
MoreAsked(n) == opt.copy_block > 0 => n < opt.copy_block

CopyTypes ==
  /\ opt \in [length : Nat, block_size : Nat \ {0}, copy_block : Int,
              input_offset : Nat, output_offset : Nat]
  /\ pos \in Nat
  /\ stats \in [copied : Nat, full : Nat, partial : Nat, bytes : Nat]
  /\ report \in [copied : Nat, full : Nat, partial : Nat, bytes : Nat]

(* Between two blocks, and with a block in hand: every block so far was     *)
(* full, and the output has them.                                           *)
Copying ==
  LET n == stats.copied
  IN /\ at = "open" => n = 0
     /\ at \in {"open", "read", "report", "reset", "write", "count"} =>
          /\ MoreAsked(n)
          /\ stats.full = n /\ stats.partial = 0 /\ stats.bytes = n * Bs
          /\ report.bytes = report.full * Bs
     /\ at = "read" =>
          /\ pos = From + n * Bs /\ output = InFile(pos)
          /\ n > 0 => pos <= opt.length
     /\ at \in {"report", "reset", "write", "count"} =>
          /\ From + n * Bs < opt.length
          /\ pos = Past(n)
          /\ buf = Run(From + n * Bs, pos)
          /\ output = InFile(IF at = "count" THEN pos ELSE From + n * Bs)

(* At the end the output and the statistics are what was asked for. *)
AllCopied ==
  /\ at \in {"last", "reset_last", "done"} =>
       /\ output = Whole
       /\ stats.bytes = Len(Copy!Wanted)
       /\ stats.full + stats.partial = (Len(Copy!Wanted) + Bs - 1) \div Bs
  /\ at \in {"reset_last", "done"} => report = stats

CopyInv == CopyTypes /\ Copying /\ AllCopied

(* Blocks are counted by products. *)
LEMMA Products ==
  ASSUME NEW n \in Nat, NEW b \in Nat \ {0}
  PROVE  /\ n * b \in Nat
         /\ (n + 1) * b = n * b + b
         /\ \A c \in Nat : n < c => n * b + b <= c * b
<1>1. n * b \in Nat
  BY SMT
<1>2. (n + 1) * b = n * b + b
  BY SMT
<1>3. ASSUME NEW c \in Nat, n < c PROVE n * b + b <= c * b
  <2>1. PICK k \in Nat : c = n + 1 + k
    <3>1. c - n - 1 \in Nat /\ c = n + 1 + (c - n - 1)
      BY <1>3
    <3> QED
      BY <3>1
  <2>2. c * b = (n + 1) * b + k * b
    BY <2>1, SMT
  <2>3. k * b \in Nat
    BY SMT
  <2>4. c * b \in Nat
    BY SMT
  <2> QED
    BY <1>1, <1>2, <2>2, <2>3, <2>4
<1> QED
  BY <1>1, <1>2, <1>3

(* The number of blocks, the last of which may be short, that bytes take. *)
LEMMA Blocks ==
  ASSUME NEW n \in Nat, NEW b \in Nat \ {0}, NEW x \in Nat,
         n * b < x + b, x <= n * b
  PROVE  (x + b - 1) \div b = n
<1> DEFINE y == x + b - 1
           q == y \div b
<1>1. q \in Nat /\ b * q <= y /\ y < b * q + b
  BY SMT
<1>2. n * b <= y /\ y < n * b + b /\ n * b \in Nat /\ q * b \in Nat /\ q * b = b * q
  BY Products, SMT
<1>3. ~(q < n)
  <2> SUFFICES ASSUME q < n PROVE FALSE
    OBVIOUS
  <2> HIDE DEF q
  <2>1. q * b + b <= n * b
    BY <1>1, Products
  <2> QED
    BY <1>1, <1>2, <2>1
<1>4. ~(n < q)
  <2> SUFFICES ASSUME n < q PROVE FALSE
    OBVIOUS
  <2> HIDE DEF q
  <2>1. n * b + b <= q * b
    BY <1>1, Products
  <2> QED
    BY <1>1, <1>2, <2>1
<1> QED
  BY <1>1, <1>3, <1>4

LEMMA WholeBlocks ==
  ASSUME NEW n \in Nat, NEW b \in Nat \ {0}
  PROVE  (n * b + b - 1) \div b = n
<1>1. n * b \in Nat
  BY Products
<1>2. n * b < n * b + b /\ n * b <= n * b
  <2> DEFINE m == n * b
  <2>1. m \in Nat
    BY <1>1
  <2> HIDE DEF m
  <2>2. m < m + b /\ m <= m
    BY <2>1
  <2> QED
    BY <2>2 DEF m
<1> QED
  BY <1>1, <1>2, Blocks, Zenon

(* What follows a run of the input makes a longer run with it. *)
LEMMA RunOn ==
  ASSUME NEW a \in Nat, NEW b \in Nat, NEW c \in Nat, a <= b, b <= c, NEW s \in Seq(Int)
  PROVE  /\ Run(a, b) \in Seq(Int) /\ Len(Run(a, b)) = b - a
         /\ (s \o Run(a, b)) \o Run(b, c) = s \o Run(a, c)
<1>1. /\ Run(a, b) \in Seq(Int) /\ Len(Run(a, b)) = b - a
      /\ Run(b, c) \in Seq(Int) /\ Len(Run(b, c)) = c - b
      /\ Run(a, c) \in Seq(Int) /\ Len(Run(a, c)) = c - a
      /\ \A j \in 1..(b - a) : Run(a, b)[j] = a + j
      /\ \A j \in 1..(c - b) : Run(b, c)[j] = b + j
      /\ \A j \in 1..(c - a) : Run(a, c)[j] = a + j
  BY DEF Run
<1>2. ASSUME NEW x \in Seq(Int), NEW y \in Seq(Int), NEW z \in Seq(Int),
             Len(z) = Len(x) + Len(y),
             \A k \in 1..Len(x) : z[k] = x[k],
             \A k \in 1..Len(y) : z[Len(x) + k] = y[k]
      PROVE  (s \o x) \o y = s \o z
  <2>1. /\ x \o y \in Seq(Int) /\ Len(x \o y) = Len(x) + Len(y)
        /\ \A k \in 1..Len(x) + Len(y) :
             (x \o y)[k] = IF k <= Len(x) THEN x[k] ELSE y[k - Len(x)]
    BY ConcatProperties
  <2>2. ASSUME NEW k \in 1..Len(z) PROVE (x \o y)[k] = z[k]
    <3>1. CASE k <= Len(x)
      BY SMTT(40), <1>2, <2>1, <3>1
    <3>2. CASE k > Len(x)
      <4>1. k - Len(x) \in 1..Len(y) /\ k = Len(x) + (k - Len(x))
        BY <1>2, <3>2
      <4>2. k \in 1..Len(x) + Len(y) /\ ~(k <= Len(x))
        BY <1>2, <3>2
      <4>3. (x \o y)[k] = y[k - Len(x)]
        BY <2>1, <4>2, Zenon
      <4>4. z[Len(x) + (k - Len(x))] = y[k - Len(x)]
        BY <1>2, <4>1, Zenon
      <4> QED
        BY <4>1, <4>3, <4>4, Zenon
    <3>3. k <= Len(x) \/ k > Len(x)
      OBVIOUS
    <3> QED
      BY <3>1, <3>2, <3>3, Zenon
  <2>3. x \o y = z
    <3>1. Len(x \o y) = Len(z)
      BY <1>2, <2>1
    <3> QED
      BY <2>1, <2>2, <3>1, SeqEqual, Zenon
  <2>4. (s \o x) \o y = s \o (x \o y)
    BY ConcatAssociative, SMTT(40)
  <2> QED
    BY <2>3, <2>4
<1>3. /\ \A j \in 1..Len(Run(a, b)) : Run(a, c)[j] = Run(a, b)[j]
      /\ \A j \in 1..Len(Run(b, c)) : Run(a, c)[Len(Run(a, b)) + j] = Run(b, c)[j]
  <2>1. /\ \A j \in 1..(b - a) : Run(a, c)[j] = Run(a, b)[j]
        /\ \A j \in 1..(c - b) : Run(a, c)[(b - a) + j] = Run(b, c)[j]
    BY DEF Run
  <2> QED
    BY <1>1, <2>1
<1>4. Len(Run(a, c)) = Len(Run(a, b)) + Len(Run(b, c))
  BY <1>1
<1>5. (s \o Run(a, b)) \o Run(b, c) = s \o Run(a, c)
  BY <1>1, <1>2, <1>3, <1>4, ZenonT(60)
<1> QED
  BY <1>1, <1>5

LEMMA CopyStarts ==
  ASSUME Copy!DdAssumption, Copy!Init PROVE CopyInv
<1>1. CopyTypes
  BY DEF Copy!DdAssumption, Copy!Init, CopyTypes, Copy!NoStats
<1>2. Copying
  BY <1>1, Products DEF Copy!Init, Copying, CopyTypes, Copy!NoStats, MoreAsked, Bs
<1> QED
  BY <1>1, <1>2 DEF CopyInv, AllCopied, Copy!Init

(* What is left to ask for when the copy has come to the end of the input   *)
(* or to the number of blocks.                                              *)
LEMMA WantedIs ==
  ASSUME CopyTypes, NEW n \in Nat, MoreAsked(n)
  PROVE  /\ From + n * Bs >= opt.length => Copy!Wanted = Run(From, opt.length)
         /\ From + (n + 1) * Bs >= opt.length \/ opt.copy_block = n + 1
              => Copy!Wanted = Run(From, Past(n))
<1> DEFINE c == opt.copy_block
<1>1. /\ From \in Nat /\ Bs \in Nat \ {0} /\ n * Bs \in Nat
      /\ opt.length \in Nat /\ c \in Int
  BY DEF From, Bs, CopyTypes
<1>2. (n + 1) * Bs = n * Bs + Bs
  BY <1>1, Products
<1>3. c > 0 => n * Bs + Bs <= c * Bs
  BY <1>1, Products DEF MoreAsked
<1>4. c > 0 => c * Bs \in Nat
  BY <1>1
<1>5. Copy!Wanted = Run(From, IF c > 0 /\ From + c * Bs < opt.length
                              THEN From + c * Bs ELSE opt.length)
  BY DEF Copy!Wanted, Run, From, Bs
<1>6. From + n * Bs >= opt.length => ~(c > 0 /\ From + c * Bs < opt.length)
  BY <1>1, <1>3, <1>4
<1>7. From + (n + 1) * Bs >= opt.length => ~(c > 0 /\ From + c * Bs < opt.length)
  BY <1>1, <1>2, <1>3, <1>4
<1>8. opt.copy_block = n + 1 => c > 0 /\ c * Bs = (n + 1) * Bs
  OBVIOUS
<1>9. Past(n) = IF From + (n + 1) * Bs < opt.length THEN From + (n + 1) * Bs
                                                    ELSE opt.length
  <2>1. From + n * Bs + Bs = From + (n + 1) * Bs
    BY <1>1, <1>2
  <2> QED
    BY <2>1 DEF Past
<1>10. From + n * Bs >= opt.length => Copy!Wanted = Run(From, opt.length)
  BY <1>5, <1>6
<1>11. From + (n + 1) * Bs >= opt.length => Copy!Wanted = Run(From, Past(n))
  BY <1>1, <1>2, <1>5, <1>7, <1>9
<1>12. c = n + 1 => Copy!Wanted = Run(From, Past(n))
  BY <1>5, <1>8, <1>9
<1> QED
  BY <1>10, <1>11, <1>12

(* As long as the options stay, so does what is said in terms of them. *)
LEMMA CopyFrame ==
  ASSUME opt' = opt
  PROVE  /\ Bs' = Bs /\ From' = From /\ Copy!Wanted' = Copy!Wanted /\ Whole' = Whole
         /\ \A n : /\ MoreAsked(n)' <=> MoreAsked(n)
                   /\ Past(n)' = Past(n)
                   /\ Copied(n)' = Copied(n)
                   /\ InFile(n)' = InFile(n)
  BY DEF Bs, From, Copy!Wanted, MoreAsked, Past, Copied, InFile, Whole, Run, Copy!Zeros

(* With all that was asked for written, the file is whole. *)
LEMMA WholeIs ==
  ASSUME CopyTypes, NEW p \in Nat, From <= p, Copy!Wanted = Run(From, p)
  PROVE  Whole = InFile(p)
<1>1. From \in Nat
  BY DEF CopyTypes, From, Bs
<1>2. Len(Run(From, p)) = p - From /\ (p = From => Run(From, p) = <<>>)
  BY <1>1 DEF Run
<1> QED
  BY <1>1, <1>2 DEF Whole, InFile, Copied

(* The first write comes behind the zeros that the seek skipped, the others *)
(* behind what is there.                                                    *)
LEMMA SkippedIs ==
  ASSUME CopyTypes, NEW a \in Nat, From <= a, output = InFile(a)
  PROVE  Copy!Skipped = Copied(a)
<1>1. From \in Nat /\ opt.output_offset * Bs \in Nat
  BY DEF CopyTypes, From, Bs
<1>2. /\ Copy!Zeros(opt.output_offset * Bs) \in Seq(Int) /\ Run(From, a) \in Seq(Int)
      /\ Len(Run(From, a)) = a - From /\ (a = From => Run(From, a) = <<>>)
  BY <1>1 DEF Copy!Zeros, Run
<1>3. CASE a = From
  BY <1>2, <1>3 DEF InFile, Copied, Copy!Skipped, Bs
<1>4. CASE a > From
  <2>1. \A z \in Seq(Int), y \in Seq(Int) : Len(y) > 0 => z \o y # <<>>
    OBVIOUS
  <2>2. Copied(a) # <<>>
    BY <1>1, <1>2, <1>4, <2>1 DEF Copied
  <2> QED
    BY <1>4, <2>2 DEF InFile, Copy!Skipped
<1> QED
  BY <1>1, <1>3, <1>4

(* The zeros that a seek leaves, and any copy behind them, are bytes. *)
LEMMA CopiedGrows ==
  ASSUME CopyTypes, NEW a \in Nat, NEW b \in Nat, From <= a, a <= b
  PROVE  Copied(a) \o Run(a, b) = Copied(b)
<1>1. From \in Nat /\ opt.output_offset * Bs \in Nat
  BY DEF CopyTypes, From, Bs
<1>2. Copy!Zeros(opt.output_offset * Bs) \in Seq(Int)
  BY <1>1 DEF Copy!Zeros
<1>3. ASSUME NEW z \in Seq(Int), NEW f \in Nat, f <= a
      PROVE  (z \o Run(f, a)) \o Run(a, b) = z \o Run(f, b)
  BY <1>3, RunOn, ZenonT(60)
<1> QED
  BY <1>1, <1>2, <1>3 DEF Copied

LEMMA CopyOpens ==
  ASSUME CopyInv, Copy!OpenAndSeek PROVE CopyInv'
<1>0. opt' = opt /\ stats' = stats /\ report' = report
  BY DEF Copy!OpenAndSeek
<1>1. From \in Nat /\ Bs \in Nat \ {0}
  BY DEF CopyInv, CopyTypes, From, Bs
<1>2. CopyTypes'
  BY <1>0, <1>1 DEF Copy!OpenAndSeek, CopyInv, CopyTypes, From, Bs
<1>3. Copying'
  <2>1. CASE at' = "read" /\ pos' = From /\ output' = <<>>
    <3>1. InFile(From) = <<>>
      BY <1>1 DEF InFile
    <3>2. stats.copied = 0 /\ stats.full = 0 /\ stats.partial = 0 /\ stats.bytes = 0 * Bs
          /\ report.bytes = report.full * Bs /\ MoreAsked(0)
      BY DEF CopyInv, Copying, Copy!OpenAndSeek
    <3>3. From + 0 * Bs = From
      BY <1>1
    <3> QED
      BY <1>0, <1>1, <2>1, <3>1, <3>2, <3>3, CopyFrame DEF Copying
  <2>2. CASE at' = "failed"
    BY <2>2 DEF Copying
  <2> QED
    BY <2>1, <2>2 DEF Copy!OpenAndSeek, From, Bs
<1>4. AllCopied'
  BY DEF Copy!OpenAndSeek, AllCopied
<1> QED
  BY <1>2, <1>3, <1>4 DEF CopyInv

LEMMA CopyReads ==
  ASSUME CopyInv, Copy!fread PROVE CopyInv'
<1> DEFINE n == stats.copied
           m == n * Bs
<1>0. /\ opt' = opt /\ stats' = stats /\ report' = report /\ output' = output
      /\ at = "read"
  BY DEF Copy!fread
<1>1. /\ From \in Nat /\ Bs \in Nat \ {0} /\ n \in Nat /\ m \in Nat /\ opt.length \in Nat
      /\ (n + 1) * Bs = m + Bs /\ opt.block_size = Bs
  BY Products DEF CopyInv, CopyTypes, From, Bs
<1>2. /\ MoreAsked(n)
      /\ stats.full = n /\ stats.partial = 0 /\ stats.bytes = m
      /\ report.bytes = report.full * Bs
      /\ pos = From + m /\ output = InFile(pos)
      /\ n > 0 => pos <= opt.length
  BY <1>0 DEF CopyInv, Copying
<1>3. n = 0 => m = 0
  BY <1>1
<1>4. (m + Bs - 1) \div Bs = n
  BY <1>1, WholeBlocks, Zenon
<1>5. Past(n) = IF pos + Bs < opt.length THEN pos + Bs ELSE opt.length
  BY <1>2 DEF Past
<1>6. pos >= opt.length => Copy!Wanted = Run(From, opt.length)
  BY <1>1, <1>2, WantedIs DEF CopyInv
<1>7. CASE pos >= opt.length
  <2>1. /\ buf' = <<>> /\ pos' = pos /\ at' = "last"
    BY <1>7 DEF Copy!fread
  <2>2. CopyTypes' /\ Copying'
    BY <1>0, <2>1 DEF CopyInv, CopyTypes, Copying
  <2> HIDE DEF n, m
  <2>4. Run(From, opt.length) = Run(From, pos) /\ Len(Run(From, pos)) = m
    <3>1. CASE n = 0
      BY <1>1, <1>2, <1>3, <1>7, <3>1 DEF Run
    <3>2. CASE n > 0
      <4>1. pos = opt.length
        BY <1>1, <1>2, <1>7, <3>2
      <4> QED
        BY <1>1, <1>2, <4>1 DEF Run
    <3> QED
      BY <1>1, <3>1, <3>2
  <2>5. InFile(pos) = Whole
    <3>1. pos \in Nat /\ From <= pos
      BY <1>1, <1>2
    <3>2. Copy!Wanted = Run(From, pos)
      BY <1>6, <1>7, <2>4
    <3> QED
      BY <3>1, <3>2, WholeIs DEF CopyInv
  <2>6. Len(Copy!Wanted) = m
    BY <1>6, <1>7, <2>4
  <2>7. AllCopied'
    <3>1. output' = Whole'
      BY <1>0, <1>2, <2>5, CopyFrame
    <3>2. stats.full + stats.partial = n
      BY <1>1, <1>2
    <3>3. stats.bytes = Len(Copy!Wanted)
          /\ stats.full + stats.partial = (Len(Copy!Wanted) + Bs - 1) \div Bs
      BY <1>2, <1>4, <2>6, <3>2
    <3>4. /\ stats'.bytes = Len(Copy!Wanted')
          /\ stats'.full + stats'.partial = (Len(Copy!Wanted') + Bs' - 1) \div Bs'
      BY <1>0, <3>3, CopyFrame
    <3> QED
      BY <2>1, <3>1, <3>4 DEF AllCopied
  <2> QED
    BY <2>2, <2>7 DEF CopyInv
<1>8. CASE pos < opt.length
  <2>0. pos \in Nat
    BY DEF CopyInv, CopyTypes
  <2>1. /\ pos' = Past(n)
        /\ at' \in {"report", "write"}
        /\ buf' = [j \in 1..(pos' - pos) |-> pos + j]
    BY SMTT(40), <1>1, <1>5, <1>8, <2>0 DEF Copy!fread, Bs
  <2> HIDE DEF n, m
  <2>2. pos' \in Nat /\ pos' > pos
    BY <1>1, <1>5, <1>8, <2>0, <2>1
  <2>3. buf' = Run(pos, pos')
    BY <2>1, <2>2 DEF Run
  <2>6. CopyTypes'
    BY <1>0, <2>2 DEF CopyInv, CopyTypes
  <2>4. Copying'
    BY <1>0, <1>2, <1>8, <2>1, <2>3, CopyFrame DEF Copying, Run, n, m
  <2>5. AllCopied'
    BY <2>1 DEF AllCopied
  <2> QED
    BY <2>4, <2>5, <2>6 DEF CopyInv
<1> QED
  <2>1. pos \in Nat
    BY DEF CopyInv, CopyTypes
  <2> QED
    BY <1>1, <1>7, <1>8, <2>1

LEMMA CopyReports ==
  ASSUME CopyInv, Copy!print_report PROVE CopyInv'
<1>0. opt' = opt /\ pos' = pos /\ buf' = buf /\ output' = output /\ stats' = stats
  BY DEF Copy!print_report
<1>1. /\ Bs' = Bs /\ From' = From /\ Copy!Wanted' = Copy!Wanted
      /\ Whole' = Whole
      /\ \A n : (MoreAsked(n)' <=> MoreAsked(n)) /\ Past(n)' = Past(n) /\ InFile(n)' = InFile(n)
  BY <1>0, CopyFrame
<1>2. CASE at \in {"report", "last"} /\ report' = stats
           /\ at' = IF at = "report" THEN "reset" ELSE "reset_last"
  <2>1. CopyTypes'
    BY <1>0, <1>2 DEF CopyInv, CopyTypes
  <2>2. Copying'
    BY <1>0, <1>1, <1>2 DEF CopyInv, Copying, Run
  <2>3. AllCopied'
    BY <1>0, <1>1, <1>2 DEF CopyInv, AllCopied, Copy!Zeros
  <2> QED
    BY <2>1, <2>2, <2>3 DEF CopyInv
<1>3. CASE at \in {"reset", "reset_last"} /\ report' = report
           /\ at' = IF at = "reset" THEN "write" ELSE "done"
  <2>1. CopyTypes'
    BY <1>0, <1>3 DEF CopyInv, CopyTypes
  <2>2. Copying'
    BY <1>0, <1>1, <1>3 DEF CopyInv, Copying, Run
  <2>3. AllCopied'
    BY <1>0, <1>1, <1>3 DEF CopyInv, AllCopied, Copy!Zeros
  <2> QED
    BY <2>1, <2>2, <2>3 DEF CopyInv
<1> QED
  BY <1>2, <1>3 DEF Copy!print_report

LEMMA CopyWrites ==
  ASSUME CopyInv, Copy!fwrite PROVE CopyInv'
<1> DEFINE n == stats.copied
           a == From + n * Bs
<1>0. /\ opt' = opt /\ pos' = pos /\ buf' = buf /\ stats' = stats /\ report' = report
      /\ at = "write"
  BY DEF Copy!fwrite
<1>1. /\ Bs' = Bs /\ From' = From
      /\ \A k : (MoreAsked(k)' <=> MoreAsked(k)) /\ Past(k)' = Past(k) /\ InFile(k)' = InFile(k)
  BY <1>0, CopyFrame
<1>2. CopyTypes' /\ AllCopied'
  BY <1>0 DEF Copy!fwrite, CopyInv, CopyTypes, AllCopied
<1>3. CASE at' = "count" /\ output' = Copy!Skipped \o buf
  <2>1. /\ a \in Nat /\ From <= a /\ pos \in Nat /\ Bs \in Nat \ {0} /\ opt.length \in Nat
    <3>1. n * Bs \in Nat /\ From \in Nat /\ Bs \in Nat \ {0}
      BY Products DEF CopyInv, CopyTypes, From, Bs
    <3> QED
      BY <3>1 DEF CopyInv, CopyTypes
  <2>2. /\ a < opt.length /\ pos = Past(n) /\ buf = Run(a, pos) /\ output = InFile(a)
    BY <1>0 DEF CopyInv, Copying
  <2> HIDE DEF a
  <2>3. a < pos /\ a <= pos
    BY <2>1, <2>2 DEF Past, a
  <2>4. output' = InFile(pos)
    <3>1. output' = Copied(pos)
      BY <1>3, <2>1, <2>2, <2>3, CopiedGrows, SkippedIs DEF CopyInv
    <3>2. From \in Nat /\ pos > From
      BY <2>1, <2>3 DEF CopyInv, CopyTypes, From, Bs
    <3> QED
      BY <3>1, <3>2 DEF InFile
  <2>5. Copying'
    BY <1>0, <1>1, <1>3, <2>4 DEF CopyInv, Copying, Run
  <2> QED
    BY <1>2, <2>5 DEF CopyInv
<1>4. CASE at' = "failed"
  BY <1>2, <1>4 DEF CopyInv, Copying
<1> QED
  BY <1>3, <1>4 DEF Copy!fwrite

LEMMA CopyCounts ==
  ASSUME CopyInv, Copy!Account PROVE CopyInv'
<1> DEFINE n == stats.copied
           m == n * Bs
           a == From + m
           limit == Copy!LimitAt(n + 1)
           short == ~limit /\ Len(buf) # opt.block_size
<1>0. /\ opt' = opt /\ pos' = pos /\ buf' = buf /\ output' = output /\ report' = report
      /\ at = "count"
      /\ stats' = [copied |-> n + 1, bytes |-> stats.bytes + Len(buf),
                   full |-> stats.full + (IF short THEN 0 ELSE 1),
                   partial |-> stats.partial + (IF short THEN 1 ELSE 0)]
      /\ at' = IF limit \/ short THEN "last" ELSE "read"
  BY DEF Copy!Account
<1>1. /\ From \in Nat /\ Bs \in Nat \ {0} /\ n \in Nat /\ m \in Nat /\ opt.length \in Nat
      /\ (n + 1) * Bs = m + Bs /\ opt.block_size = Bs /\ pos \in Nat
      /\ opt.copy_block \in Int
  BY Products DEF CopyInv, CopyTypes, From, Bs
<1>2. /\ MoreAsked(n)
      /\ stats.full = n /\ stats.partial = 0 /\ stats.bytes = m
      /\ report.bytes = report.full * Bs
      /\ a < opt.length /\ pos = Past(n) /\ buf = Run(a, pos) /\ output = InFile(pos)
  BY <1>0 DEF CopyInv, Copying
<1>3. /\ opt.length <= a + Bs => Copy!Wanted = Run(From, Past(n))
      /\ limit => Copy!Wanted = Run(From, Past(n))
  <2>1. From + (n + 1) * Bs = a + Bs
    BY <1>1
  <2> QED
    BY <1>1, <1>2, <2>1, WantedIs DEF CopyInv, Copy!LimitAt
<1>4. Past(n) = IF a + Bs < opt.length THEN a + Bs ELSE opt.length
  BY DEF Past
<1>5. \A x \in Nat : (n + 1) * Bs < x + Bs /\ x <= (n + 1) * Bs
                       => (x + Bs - 1) \div Bs = n + 1
  <2>1. n + 1 \in Nat
    BY <1>1
  <2> QED
    BY <1>1, <2>1, Blocks, Zenon
<1> HIDE DEF n, m
<1>6. a < pos /\ pos <= a + Bs /\ pos <= opt.length /\ Len(buf) = pos - a
  <2>1. a < pos /\ pos <= a + Bs /\ pos <= opt.length /\ a \in Nat
    BY <1>1, <1>2, <1>4
  <2> QED
    BY <1>1, <1>2, <2>1 DEF Run
<1>7. CopyTypes'
  <2>1. n + 1 \in Nat /\ stats.bytes + Len(buf) \in Nat
    BY <1>1, <1>2, <1>6
  <2>2. stats' \in [copied : Nat, full : Nat, partial : Nat, bytes : Nat]
    BY <1>0, <1>1, <1>2, <2>1
  <2> QED
    BY <1>0, <2>2 DEF CopyInv, CopyTypes
<1>8. CASE limit \/ short
  <2>1. Copy!Wanted = Run(From, pos)
    <3>1. CASE limit
      BY <1>2, <1>3, <3>1
    <3>2. CASE short
      <4>1. pos # a + Bs
        BY <1>1, <1>6, <3>2
      <4>2. opt.length <= a + Bs
        BY <1>1, <1>2, <1>4, <4>1
      <4> QED
        BY <1>2, <1>3, <4>2
    <3> QED
      BY <1>8, <3>1, <3>2
  <2>2. Len(Copy!Wanted) = pos - From /\ From <= pos
    BY <1>1, <1>6, <2>1 DEF Run
  <2>3. stats'.bytes = Len(Copy!Wanted)
    <3>1. stats'.bytes = m + (pos - a)
      BY <1>0, <1>2, <1>6
    <3>2. m + (pos - a) = pos - From
      BY <1>1
    <3> QED
      BY <2>2, <3>1, <3>2
  <2>4. stats'.full + stats'.partial = n + 1
    BY <1>0, <1>1, <1>2
  <2>5. ((pos - From) + Bs - 1) \div Bs = n + 1
    <3>1. pos - From \in Nat /\ m + Bs < (pos - From) + Bs /\ pos - From <= m + Bs
      BY <1>1, <1>6, <2>2
    <3> QED
      BY <1>1, <1>5, <3>1, Zenon
  <2>6. AllCopied'
    <3>1. output = Whole
      BY <1>1, <1>2, <2>1, <2>2, WholeIs DEF CopyInv
    <3>2. /\ output' = Whole'
          /\ stats'.bytes = Len(Copy!Wanted')
          /\ stats'.full + stats'.partial = (Len(Copy!Wanted') + Bs' - 1) \div Bs'
      BY <1>0, <2>2, <2>3, <2>4, <2>5, <3>1, CopyFrame DEF Copy!Zeros
    <3> QED
      BY <1>0, <1>8, <3>2 DEF AllCopied
  <2> QED
    BY <1>0, <1>7, <1>8, <2>6 DEF CopyInv, Copying
<1>9. CASE ~(limit \/ short)
  <2>1. pos = a + Bs
    BY <1>1, <1>6, <1>9
  <2>2. /\ stats'.copied = n + 1 /\ stats'.full = n + 1 /\ stats'.partial = 0
        /\ stats'.bytes = (n + 1) * Bs /\ pos = From + (n + 1) * Bs
    BY <1>0, <1>1, <1>2, <1>6, <1>9, <2>1
  <2>3. MoreAsked(n + 1)
    BY <1>1, <1>2, <1>9 DEF MoreAsked, Copy!LimitAt
  <2>4. Copying'
    BY <1>0, <1>2, <1>6, <1>9, <2>2, <2>3, CopyFrame DEF Copying
  <2> QED
    BY <1>0, <1>7, <1>9, <2>4 DEF CopyInv, AllCopied
<1> QED
  BY <1>8, <1>9

LEMMA CopyInvariance ==
  ASSUME Copy!DdAssumption PROVE Copy!Spec => []CopyInv
<1>1. Copy!Init => CopyInv
  BY CopyStarts
<1>2. CopyInv /\ [Copy!Next]_(Copy!vars) => CopyInv'
  <2> SUFFICES ASSUME CopyInv, [Copy!Next]_(Copy!vars) PROVE CopyInv'
    OBVIOUS
  <2>1. CASE Copy!signal_handler
    <3>1. /\ opt' = opt /\ pos' = pos /\ buf' = buf /\ output' = output /\ stats' = stats
          /\ report' = report /\ at' = at
      BY <2>1 DEF Copy!signal_handler
    <3> QED
      BY <3>1, CopyFrame
         DEF CopyInv, CopyTypes, Copying, AllCopied, Copy!Zeros, Run
  <2>2. CASE Copy!Step
    BY <2>2, CopyOpens, CopyReads, CopyReports, CopyWrites, CopyCounts DEF Copy!Step
  <2>3. CASE UNCHANGED Copy!vars
    <3>1. /\ opt' = opt /\ pos' = pos /\ buf' = buf /\ output' = output /\ stats' = stats
          /\ report' = report /\ at' = at
      BY <2>3 DEF Copy!vars
    <3> QED
      BY <3>1, CopyFrame
         DEF CopyInv, CopyTypes, Copying, AllCopied, Copy!Zeros, Run
  <2> QED
    BY <2>1, <2>2, <2>3 DEF Copy!Next
<1> QED
  BY <1>1, <1>2, PTL DEF Copy!Spec

(* Whatever the lengths, the block size, the offsets, the number of blocks  *)
(* and the signals, a copy that ends well is whole and its reports are      *)
(* right (dd.c:101-144).                                                    *)
THEOREM CopyStaysWhole ==
  ASSUME Copy!DdAssumption PROVE Copy!Spec => []CopyWhole
<1>1. CopyInv => Copy!CopyWhole
  <2> SUFFICES ASSUME CopyInv PROVE Copy!CopyWhole
    OBVIOUS
  <2>1. Bs = opt.block_size
    BY DEF Bs
  <2> QED
    BY <2>1 DEF CopyInv, Copying, AllCopied, Whole, Copy!CopyWhole
<1> QED
  BY <1>1, CopyInvariance, PTL DEF CopyWhole

(***************************************************************************)
(* The bookkeeping of mini_memcheck, Memcheck.                             *)
(***************************************************************************)

(* The community operators that Memcheck uses are those of the lemmas. *)
LEMMA MemOperators ==
  ASSUME NEW s, NEW n, NEW f, NEW S
  PROVE  /\ Mem!RemoveAt(s, n) = RemoveAt(s, n)
         /\ Mem!ToSet(s) = ToSet(s)
         /\ Mem!Restrict(f, S) = Restrict(f, S)
         /\ Mem!MapThenSumSet(LAMBDA a : f[a], S) = Total(f, S)
         /\ Mem!Max(S) = Max(S)
         /\ Mem!Cardinality(S) = Cardinality(S)
<1>1. Mem!RemoveAt(s, n) = RemoveAt(s, n)
  BY DEF Mem!RemoveAt, RemoveAt
<1>2. Mem!ToSet(s) = ToSet(s)
  BY DEF Mem!ToSet, ToSet
<1>3. Mem!Restrict(f, S) = Restrict(f, S)
  BY DEF Mem!Restrict, Restrict
<1>4. Mem!MapThenSumSet(LAMBDA a : f[a], S) = Total(f, S)
  BY DEF Mem!MapThenSumSet, Mem!MapThenFoldSet, Total, MapThenSumSet, MapThenFoldSet
<1>5. Mem!Max(S) = Max(S)
  BY DEF Mem!Max, Max
<1>6. Mem!Cardinality(S) = Cardinality(S)
  BY DEF Mem!Cardinality, Cardinality
<1> QED
  BY <1>1, <1>2, <1>3, <1>4, <1>5, <1>6

Headers == [at : Nat, request_size : Nat]

BooksTypes ==
  /\ list \in Seq(Headers)
  /\ allocated \in Nat
  /\ held \in [DOMAIN held -> Nat] /\ DOMAIN held \subseteq 1..allocated
  /\ total_memory_requested \in Nat /\ total_memory_freed \in Nat
  /\ invalid_addresses \in Nat /\ mistakes = invalid_addresses

(* A list has the blocks that the caller holds, once and with their sizes. *)
Lists(s, h) ==
  /\ \A k, l \in 1..Len(s) : s[k].at = s[l].at => k = l
  /\ \A k \in 1..Len(s) : s[k].at \in DOMAIN h /\ h[s[k].at] = s[k].request_size
  /\ \A a \in DOMAIN h : \E k \in 1..Len(s) : s[k].at = a
  /\ Len(s) = Cardinality(DOMAIN h)

BooksInv ==
  /\ BooksTypes
  /\ Lists(list, held)
  /\ total_memory_requested - total_memory_freed = Total(held, DOMAIN held)

LEMMA HeldIsFinite ==
  ASSUME BooksTypes
  PROVE  /\ IsFiniteSet(DOMAIN held) /\ Cardinality(DOMAIN held) \in Nat
         /\ \A a \in DOMAIN held : held[a] \in Nat
<1>1. IsFiniteSet(1..allocated)
  BY SMTT(40), FS_Interval DEF BooksTypes
<1>2. IsFiniteSet(DOMAIN held)
  BY <1>1, FS_Subset DEF BooksTypes
<1> QED
  BY <1>2, FS_CardinalityType DEF BooksTypes

(* Find gives the place of a block that the caller holds, and 0 for any     *)
(* other address.                                                           *)
LEMMA FindFinds ==
  ASSUME BooksInv, NEW payload
  PROVE  /\ payload \notin DOMAIN held => Mem!Find(payload) = 0
         /\ payload \in DOMAIN held =>
              /\ Mem!Find(payload) \in 1..Len(list)
              /\ list[Mem!Find(payload)].at = payload
              /\ list[Mem!Find(payload)].request_size = held[payload]
<1> DEFINE places == {n \in DOMAIN list : list[n].at = payload}
<1>1. DOMAIN list = 1..Len(list) /\ Len(list) \in Nat
  BY DEF BooksInv, BooksTypes
<1>2. Mem!Find(payload) = Max({0} \cup places)
  BY MemOperators DEF Mem!Find
<1>3. CASE payload \notin DOMAIN held
  <2>1. places = {}
    BY <1>1, <1>3 DEF BooksInv, Lists
  <2>2. Max({0}) = 0
    BY DEF Max
  <2> QED
    BY <1>2, <1>3, <2>1, <2>2
<1>4. CASE payload \in DOMAIN held
  <2>1. PICK k \in 1..Len(list) : list[k].at = payload
    BY <1>4 DEF BooksInv, Lists
  <2>2. places = {k}
    BY <1>1, <2>1 DEF BooksInv, Lists
  <2>3. Max({0} \cup {k}) = k
    BY <1>1 DEF Max
  <2> HIDE DEF places
  <2>4. Mem!Find(payload) = k
    BY <1>2, <2>2, <2>3
  <2>5. list[k].at = payload /\ list[k].request_size = held[payload]
    BY <2>1 DEF BooksInv, Lists
  <2> QED
    BY <1>4, <2>4, <2>5
<1> QED
  BY <1>3, <1>4

LEMMA BooksStart ==
  ASSUME Mem!Init PROVE BooksInv
<1>1. BooksTypes
  BY DEF Mem!Init, BooksTypes
<1>2. Cardinality(DOMAIN held) = 0 /\ DOMAIN held = {}
  BY FS_EmptySet DEF Mem!Init
<1>3. Total(held, {}) = 0
  BY FS_EmptySet, TotalPicks
<1> QED
  BY <1>1, <1>2, <1>3 DEF Mem!Init, BooksInv, Lists

LEMMA MallocKeepsBooks ==
  ASSUME BooksInv, NEW size \in Nat, Mem!mini_malloc(size)
  PROVE  BooksInv'
<1> DEFINE a == allocated + 1
           b == [at |-> a, request_size |-> size]
           D == DOMAIN held
<1>1. /\ allocated' = a /\ list' = <<b>> \o list
      /\ total_memory_requested' = total_memory_requested + size
      /\ held' = [x \in D \cup {a} |-> IF x = a THEN size ELSE held[x]]
      /\ total_memory_freed' = total_memory_freed /\ invalid_addresses' = invalid_addresses
      /\ mistakes' = mistakes
  BY DEF Mem!mini_malloc
<1>2. /\ IsFiniteSet(D) /\ Cardinality(D) \in Nat /\ \A x \in D : held[x] \in Nat
      /\ a \in Nat /\ a \notin D /\ b \in Headers /\ list \in Seq(Headers) /\ D \subseteq Nat
  BY SMTT(40), HeldIsFinite DEF BooksInv, BooksTypes, Headers
<1>3. /\ DOMAIN held' = D \cup {a} /\ held'[a] = size /\ \A x \in D : held'[x] = held[x]
  BY <1>1, <1>2
<1>4. /\ list' \in Seq(Headers) /\ Len(list') = Len(list) + 1
      /\ list'[1] = b /\ \A k \in 1..Len(list) : list'[k + 1] = list[k]
  <2>1. <<b>> \in Seq(Headers) /\ Len(<<b>>) = 1 /\ <<b>>[1] = b
    BY <1>2
  <2> HIDE DEF b
  <2>2. /\ <<b>> \o list \in Seq(Headers) /\ Len(<<b>> \o list) = 1 + Len(list)
        /\ \A k \in 1..(1 + Len(list)) :
             (<<b>> \o list)[k] = IF k <= 1 THEN <<b>>[k] ELSE list[k - 1]
    BY <1>2, <2>1, ConcatProperties
  <2> QED
    BY <1>1, <1>2, <2>1, <2>2
<1>5. BooksTypes'
  BY SMTT(40), <1>1, <1>2, <1>3, <1>4 DEF BooksInv, BooksTypes
<1>6. Lists(list', held')
  <2>1. Cardinality(D \cup {a}) = Cardinality(D) + 1
    BY <1>2, FS_AddElement
  <2>2. Len(list') = Cardinality(DOMAIN held')
    BY <1>3, <1>4, <2>1 DEF BooksInv, Lists
  <2>3. ASSUME NEW k \in 1..Len(list')
        PROVE  \/ k = 1 /\ list'[k] = b
               \/ k - 1 \in 1..Len(list) /\ list'[k] = list[k - 1]
    <3>1. CASE k = 1
      BY <1>4, <3>1
    <3>2. CASE k # 1
      <4>1. k - 1 \in 1..Len(list) /\ (k - 1) + 1 = k
        BY <1>2, <1>4, <3>2
      <4> QED
        BY <1>4, <4>1
    <3> QED
      BY <3>1, <3>2
  <2>4. \A k \in 1..Len(list') :
          list'[k].at \in DOMAIN held' /\ held'[list'[k].at] = list'[k].request_size
    <3> TAKE k \in 1..Len(list')
    <3>1. CASE k = 1 /\ list'[k] = b
      BY <1>3, <3>1
    <3>2. CASE k - 1 \in 1..Len(list) /\ list'[k] = list[k - 1]
      BY <1>3, <3>2 DEF BooksInv, Lists
    <3> QED
      BY <2>3, <3>1, <3>2
  <2>5. \A k, l \in 1..Len(list') : list'[k].at = list'[l].at => k = l
    <3> TAKE k, l \in 1..Len(list')
    <3> HAVE list'[k].at = list'[l].at
    <3>1. CASE k = 1 /\ list'[k] = b
      <4>1. \A m \in 1..Len(list) : list[m].at # a
        BY <1>2 DEF BooksInv, Lists
      <4> QED
        BY <2>3, <3>1, <4>1
    <3>2. CASE k - 1 \in 1..Len(list) /\ list'[k] = list[k - 1]
      <4>1. CASE l = 1 /\ list'[l] = b
        BY <1>2, <3>2, <4>1 DEF BooksInv, Lists
      <4>2. CASE l - 1 \in 1..Len(list) /\ list'[l] = list[l - 1]
        <5>1. k - 1 = l - 1
          BY SMTT(40), <3>2, <4>2 DEF BooksInv, Lists
        <5> QED
          BY <5>1
      <4> QED
        BY <2>3, <4>1, <4>2
    <3> QED
      BY <2>3, <3>1, <3>2
  <2>6. \A x \in DOMAIN held' : \E k \in 1..Len(list') : list'[k].at = x
    <3> TAKE x \in DOMAIN held'
    <3>1. CASE x = a
      <4>1. 1 \in 1..Len(list') /\ list'[1].at = x
        BY <1>2, <1>4, <3>1
      <4> QED
        BY <4>1
    <3>2. CASE x \in D
      <4>1. PICK k \in 1..Len(list) : list[k].at = x
        BY <3>2 DEF BooksInv, Lists
      <4>2. k + 1 \in 1..Len(list') /\ list'[k + 1].at = x
        BY <1>2, <1>4, <4>1
      <4> QED
        BY <4>2
    <3> QED
      BY <1>3, <3>1, <3>2
  <2> QED
    BY <2>2, <2>4, <2>5, <2>6 DEF Lists
<1>7. Total(held', D \cup {a}) = Total(held, D) + size
  <2>1. \A x \in D \cup {a} : held'[x] \in Int
    BY <1>2, <1>3
  <2>2. Total(held', D \cup {a}) = Total(held', D) + size
    BY <1>2, <1>3, <2>1, TotalWith
  <2>3. Total(held', D) = Total(held, D)
    BY <1>2, <1>3, TotalReads
  <2> QED
    BY <2>2, <2>3
<1>8. Total(held, D) \in Int
  BY <1>2, TotalType
<1>9. total_memory_requested' - total_memory_freed' = Total(held', DOMAIN held')
  <2>1. total_memory_requested - total_memory_freed = Total(held, D)
    BY DEF BooksInv
  <2> QED
    BY <1>1, <1>3, <1>7, <1>8, <2>1 DEF BooksInv, BooksTypes
<1> QED
  BY <1>5, <1>6, <1>9 DEF BooksInv, Lists

LEMMA FreeKeepsBooks ==
  ASSUME BooksInv, NEW payload, Mem!mini_free(payload)
  PROVE  BooksInv'
<1> DEFINE D == DOMAIN held
           n == Mem!Find(payload)
<1>0. /\ IsFiniteSet(D) /\ Cardinality(D) \in Nat /\ \A x \in D : held[x] \in Nat
      /\ list \in Seq(Headers) /\ Len(list) \in Nat
  BY HeldIsFinite DEF BooksInv, BooksTypes
<1>1. held' = [x \in D \ {payload} |-> held[x]]
  BY MemOperators DEF Mem!mini_free, Restrict
<1>2. CASE payload \notin D
  <2>1. n = 0
    BY <1>2, FindFinds
  <2>2. held' = held
    <3>1. D \ {payload} = D
      BY <1>2
    <3> QED
      BY <1>1, <3>1 DEF BooksInv, BooksTypes
  <2>3. /\ invalid_addresses' = invalid_addresses + 1 /\ mistakes' = mistakes + 1
        /\ list' = list /\ total_memory_requested' = total_memory_requested
        /\ total_memory_freed' = total_memory_freed /\ allocated' = allocated
    BY <1>2, <2>1 DEF Mem!mini_free, Mem!Invalid, Mem!Mistaken
  <2>4. BooksTypes'
    BY <2>2, <2>3 DEF BooksInv, BooksTypes
  <2> QED
    BY <2>2, <2>3, <2>4 DEF BooksInv, Lists
<1>3. CASE payload \in D
  <2>1. n \in 1..Len(list) /\ list[n].at = payload /\ list[n].request_size = held[payload]
    BY <1>3, FindFinds
  <2>2. /\ list' = RemoveAt(list, n)
        /\ total_memory_freed' = total_memory_freed + held[payload]
        /\ total_memory_requested' = total_memory_requested
        /\ invalid_addresses' = invalid_addresses /\ mistakes' = mistakes
        /\ allocated' = allocated
    <3>1. n # 0 /\ mistakes' = mistakes
      BY <1>0, <1>3, <2>1 DEF Mem!mini_free, Mem!Mistaken
    <3> QED
      BY <2>1, <3>1, MemOperators DEF Mem!mini_free
  <2> HIDE DEF n
  <2>3. /\ list' \in Seq(Headers) /\ Len(list') = Len(list) - 1
        /\ \A k \in 1..(Len(list) - 1) : list'[k] = IF k < n THEN list[k] ELSE list[k + 1]
    BY <1>0, <2>1, <2>2, RemoveAtProperties
  <2>4. /\ DOMAIN held' = D \ {payload} /\ \A x \in D \ {payload} : held'[x] = held[x]
    BY <1>1
  <2>5. BooksTypes'
    <3>1. held[payload] \in Nat
      BY <1>0, <1>3
    <3> QED
      BY SMTT(40), <1>0, <1>1, <2>2, <2>3, <2>4, <3>1 DEF BooksInv, BooksTypes
  <2> DEFINE from(k) == IF k < n THEN k ELSE k + 1
  <2>6. ASSUME NEW k \in 1..Len(list')
        PROVE  from(k) \in 1..Len(list) /\ from(k) # n /\ list'[k] = list[from(k)]
    BY <1>0, <2>1, <2>3
  <2>7. \A k \in 1..Len(list') :
          list'[k].at \in DOMAIN held' /\ held'[list'[k].at] = list'[k].request_size
    <3> TAKE k \in 1..Len(list')
    <3> DEFINE l == from(k)
    <3>1. l \in 1..Len(list) /\ l # n /\ list'[k] = list[l]
      BY <2>6
    <3> HIDE DEF l
    <3>2. list[l].at # payload
      BY <2>1, <3>1 DEF BooksInv, Lists
    <3> QED
      BY <2>4, <3>1, <3>2 DEF BooksInv, Lists
  <2>8. \A k, l \in 1..Len(list') : list'[k].at = list'[l].at => k = l
    <3> TAKE k, l \in 1..Len(list')
    <3> HAVE list'[k].at = list'[l].at
    <3>1. from(k) = from(l)
      <4> DEFINE i == from(k)
                 j == from(l)
      <4>1. /\ i \in 1..Len(list) /\ list'[k] = list[i]
            /\ j \in 1..Len(list) /\ list'[l] = list[j]
        BY <2>6
      <4> HIDE DEF i, j
      <4>2. i = j
        BY <4>1 DEF BooksInv, Lists
      <4> QED
        BY <4>2 DEF i, j
    <3> QED
      BY <1>0, <2>1, <2>3, <3>1
  <2>9. \A x \in DOMAIN held' : \E k \in 1..Len(list') : list'[k].at = x
    <3> TAKE x \in DOMAIN held'
    <3>1. PICK k \in 1..Len(list) : list[k].at = x
      BY <2>4 DEF BooksInv, Lists
    <3>2. k # n
      BY <2>1, <2>4, <3>1
    <3>3. CASE k < n
      <4>1. k \in 1..Len(list') /\ list'[k].at = x
        BY <1>0, <2>1, <2>3, <3>1, <3>3
      <4> QED
        BY <4>1
    <3>4. CASE k > n
      <4>1. k - 1 \in 1..Len(list') /\ list'[k - 1].at = x
        BY SMTT(40), <1>0, <2>1, <2>3, <3>1, <3>4
      <4> QED
        BY <4>1
    <3> QED
      BY <2>1, <3>2, <3>3, <3>4
  <2>10. Lists(list', held')
    <3>1. Cardinality(D \ {payload}) = Cardinality(D) - 1
      BY <1>0, <1>3, FS_RemoveElement
    <3>2. Len(list') = Cardinality(DOMAIN held')
      BY <2>3, <2>4, <3>1 DEF BooksInv, Lists
    <3> QED
      BY <2>7, <2>8, <2>9, <3>2 DEF Lists
  <2>11. /\ Total(held, D) = held[payload] + Total(held, D \ {payload})
         /\ Total(held', D \ {payload}) = Total(held, D \ {payload})
         /\ Total(held, D \ {payload}) \in Int
    <3>1. IsFiniteSet(D \ {payload}) /\ \A x \in D : held[x] \in Int
      BY <1>0, FS_Subset
    <3>2. Total(held, D) = held[payload] + Total(held, D \ {payload})
      BY <1>0, <1>3, <3>1, TotalTakes
    <3>3. Total(held', D \ {payload}) = Total(held, D \ {payload})
      BY <2>4, <3>1, TotalReads
    <3>4. Total(held, D \ {payload}) \in Int
      BY <3>1, TotalType
    <3> QED
      BY <3>2, <3>3, <3>4
  <2>12. total_memory_requested' - total_memory_freed' = Total(held', DOMAIN held')
    <3>1. total_memory_requested - total_memory_freed = Total(held, D)
      BY DEF BooksInv
    <3>2. /\ total_memory_requested \in Nat /\ total_memory_freed \in Nat
          /\ held[payload] \in Nat
      BY <1>0, <1>3 DEF BooksInv, BooksTypes
    <3> QED
      BY <2>2, <2>4, <2>11, <3>1, <3>2
  <2> QED
    BY <2>5, <2>10, <2>12 DEF BooksInv, Lists
<1> QED
  BY <1>2, <1>3

LEMMA ResizeKeepsBooks ==
  ASSUME BooksInv, NEW payload \in DOMAIN held, NEW size \in Nat, Mem!Resize(payload, size)
  PROVE  BooksInv'
<1> DEFINE D == DOMAIN held
           n == Mem!Find(payload)
<1>0. /\ IsFiniteSet(D) /\ \A x \in D : held[x] \in Nat
      /\ list \in Seq(Headers) /\ Len(list) \in Nat
  BY HeldIsFinite DEF BooksInv, BooksTypes
<1>1. n \in 1..Len(list) /\ list[n].at = payload /\ list[n].request_size = held[payload]
  BY FindFinds
<1>2. CASE undefined' = TRUE /\ UNCHANGED <<list, Mem!counters, allocated, Mem!caller>>
  BY <1>2 DEF BooksInv, BooksTypes, Lists, Mem!counters, Mem!caller
<1>3. CASE list' = Mem!WithSize(n, size) /\ held' = [held EXCEPT ![payload] = size]
  <2>1. /\ invalid_addresses' = invalid_addresses /\ mistakes' = mistakes
        /\ allocated' = allocated
        /\ total_memory_requested' - total_memory_freed'
             = total_memory_requested - total_memory_freed + (size - held[payload])
        /\ total_memory_requested' \in Nat /\ total_memory_freed' \in Nat
    <3>1. /\ total_memory_requested \in Nat /\ total_memory_freed \in Nat
          /\ held[payload] \in Nat
      BY <1>0 DEF BooksInv, BooksTypes
    <3>2. CASE undefined' = TRUE /\ UNCHANGED <<list, Mem!counters, allocated, Mem!caller>>
      <4>1. held'[payload] = size
        BY <1>3 DEF BooksInv, BooksTypes
      <4> QED
        BY <3>1, <3>2, <4>1 DEF Mem!counters, Mem!caller
    <3>3. CASE ~(undefined' = TRUE /\ UNCHANGED <<list, Mem!counters, allocated, Mem!caller>>)
      BY SMTT(40), <1>1, <3>1, <3>3 DEF Mem!Resize
    <3> QED
      BY <3>2, <3>3
  <2>2. /\ list' = [list EXCEPT ![n].request_size = size]
        /\ held' = [held EXCEPT ![payload] = size]
    BY <1>3 DEF Mem!WithSize
  <2> HIDE DEF n
  <2>3. /\ list' \in Seq(Headers) /\ Len(list') = Len(list)
        /\ \A k \in 1..Len(list) : /\ list'[k].at = list[k].at
                                   /\ k # n => list'[k] = list[k]
        /\ list'[n].request_size = size
    <3> DEFINE b == [at |-> list[n].at, request_size |-> size]
    <3>1. list[n] \in Headers
      BY <1>0, <1>1
    <3>2. b \in Headers
      BY <3>1 DEF Headers
    <3>3. \A h \in Headers : [h EXCEPT !.request_size = size]
                                = [at |-> h.at, request_size |-> size]
      BY DEF Headers
    <3>4. [list[n] EXCEPT !.request_size = size] = b
      BY <3>1, <3>3, Zenon
    <3>5. list' = [list EXCEPT ![n] = b]
      BY <2>2, <3>4, Zenon
    <3>6. b.at = list[n].at /\ b.request_size = size
      OBVIOUS
    <3> HIDE DEF b
    <3> QED
      BY <1>0, <1>1, <3>2, <3>5, <3>6
  <2>4. /\ DOMAIN held' = D /\ held'[payload] = size
        /\ \A x \in D \ {payload} : held'[x] = held[x]
        /\ held' \in [D -> Nat]
    BY <2>2 DEF BooksInv, BooksTypes
  <2>5. BooksTypes'
    BY <2>1, <2>3, <2>4 DEF BooksInv, BooksTypes
  <2>6. \A k \in 1..Len(list) : list[k].at = payload => k = n
    BY <1>1 DEF BooksInv, Lists
  <2>7. Lists(list', held')
    <3>1. \A k, l \in 1..Len(list') : list'[k].at = list'[l].at => k = l
      BY <2>3 DEF BooksInv, Lists
    <3>2. \A k \in 1..Len(list') :
            list'[k].at \in DOMAIN held' /\ held'[list'[k].at] = list'[k].request_size
      <4> TAKE k \in 1..Len(list')
      <4>1. CASE k = n
        BY <1>1, <2>3, <2>4, <4>1
      <4>2. CASE k # n
        <5>1. list'[k] = list[k] /\ list[k].at # payload /\ k \in 1..Len(list)
          BY <2>3, <2>6, <4>2
        <5>2. list[k].at \in D /\ held[list[k].at] = list[k].request_size
          BY <5>1 DEF BooksInv, Lists
        <5>3. list[k].at \in D \ {payload}
          BY <5>1, <5>2
        <5> QED
          BY <2>4, <5>1, <5>2, <5>3
      <4> QED
        BY <4>1, <4>2
    <3>3. \A x \in DOMAIN held' : \E k \in 1..Len(list') : list'[k].at = x
      BY ZenonT(60), <2>3, <2>4 DEF BooksInv, Lists
    <3>4. Len(list') = Cardinality(DOMAIN held')
      BY <2>3, <2>4 DEF BooksInv, Lists
    <3> QED
      BY <3>1, <3>2, <3>3, <3>4 DEF Lists
  <2>8. /\ Total(held, D) = held[payload] + Total(held, D \ {payload})
        /\ Total(held', D) = size + Total(held, D \ {payload})
        /\ Total(held, D \ {payload}) \in Int
    <3>1. IsFiniteSet(D \ {payload}) /\ \A x \in D : held[x] \in Int /\ held'[x] \in Int
      BY <1>0, <2>4, FS_Subset
    <3>2. Total(held, D) = held[payload] + Total(held, D \ {payload})
      BY <1>0, <3>1, TotalTakes
    <3>3. Total(held', D) = size + Total(held', D \ {payload})
      BY <1>0, <2>4, <3>1, TotalTakes
    <3>4. Total(held', D \ {payload}) = Total(held, D \ {payload})
      BY <2>4, <3>1, TotalReads
    <3>5. Total(held, D \ {payload}) \in Int
      BY <3>1, TotalType
    <3> QED
      BY <3>2, <3>3, <3>4, <3>5
  <2>9. total_memory_requested' - total_memory_freed' = Total(held', DOMAIN held')
    <3>1. total_memory_requested - total_memory_freed = Total(held, D)
      BY DEF BooksInv
    <3>2. held[payload] \in Nat
      BY <1>0
    <3> QED
      BY <2>1, <2>4, <2>8, <3>1, <3>2
  <2> QED
    BY <2>5, <2>7, <2>9 DEF BooksInv, Lists
<1> QED
  BY <1>2, <1>3 DEF Mem!Resize

LEMMA ReallocKeepsBooks ==
  ASSUME BooksInv, NEW payload, NEW size \in Nat, Mem!mini_realloc(payload, size)
  PROVE  BooksInv'
<1>1. CASE Mem!mini_malloc(size)
  BY <1>1, MallocKeepsBooks
<1>2. CASE Mem!mini_free(payload)
  BY <1>2, FreeKeepsBooks
<1>3. CASE Mem!Find(payload) = 0 /\ Mem!Invalid /\ Mem!Mistaken(payload) /\ UNCHANGED held
  <2>1. payload \notin DOMAIN held
    BY <1>3, FindFinds
  <2>2. /\ invalid_addresses' = invalid_addresses + 1 /\ mistakes' = mistakes + 1
        /\ list' = list /\ total_memory_requested' = total_memory_requested
        /\ total_memory_freed' = total_memory_freed /\ allocated' = allocated
        /\ held' = held
    BY <1>3, <2>1 DEF Mem!Invalid, Mem!Mistaken
  <2>3. BooksTypes'
    BY <2>2 DEF BooksInv, BooksTypes
  <2> QED
    BY <2>2, <2>3 DEF BooksInv, Lists
<1>4. CASE Mem!Find(payload) # 0 /\ Mem!Resize(payload, size)
  <2>1. payload \in DOMAIN held
    BY <1>4, FindFinds
  <2> QED
    BY <1>4, <2>1, ResizeKeepsBooks
<1> QED
  BY <1>1, <1>2, <1>3, <1>4 DEF Mem!mini_realloc

LEMMA BooksInvariance ==
  ASSUME Mem!MemcheckAssumption PROVE Mem!Spec => []BooksInv
<1>1. Mem!Init => BooksInv
  BY BooksStart
<1>2. BooksInv /\ [Mem!Next]_(Mem!vars) => BooksInv'
  <2> SUFFICES ASSUME BooksInv, [Mem!Next]_(Mem!vars) PROVE BooksInv'
    OBVIOUS
  <2>1. ASSUME NEW size \in Sizes,
               Mem!mini_malloc(size) \/ \E n \in 1..2 : Mem!mini_calloc(n, size)
        PROVE  BooksInv'
    <3>1. size \in Nat
      BY DEF Mem!MemcheckAssumption
    <3>2. ASSUME NEW n \in 1..2, Mem!mini_calloc(n, size) PROVE BooksInv'
      <4>1. n * size \in Nat
        BY <3>1
      <4>2. Mem!mini_malloc(n * size)
        BY <3>2 DEF Mem!mini_calloc
      <4> QED
        BY <4>1, <4>2, MallocKeepsBooks
    <3> QED
      BY <2>1, <3>1, <3>2, MallocKeepsBooks
  <2>2. ASSUME NEW payload, Mem!mini_free(payload) PROVE BooksInv'
    BY <2>2, FreeKeepsBooks
  <2>3. ASSUME NEW payload, NEW size \in Sizes \cup {0}, Mem!mini_realloc(payload, size)
        PROVE  BooksInv'
    <3>1. size \in Nat
      BY DEF Mem!MemcheckAssumption
    <3> QED
      BY <2>3, <3>1, ReallocKeepsBooks
  <2>4. CASE UNCHANGED Mem!vars
    BY <2>4 DEF Mem!vars, Mem!counters, Mem!caller, BooksInv, BooksTypes, Lists
  <2> QED
    BY <2>1, <2>2, <2>3, <2>4 DEF Mem!Next
<1> QED
  BY <1>1, <1>2, PTL DEF Mem!Spec

(* After any calls with any addresses the list of mini_memcheck, its totals *)
(* and its count of bad addresses are right (mini_memcheck.c:16-146).       *)
THEOREM BooksStayBalanced ==
  ASSUME Mem!MemcheckAssumption PROVE Mem!Spec => []BooksBalance
<1>1. BooksInv => Mem!BooksBalance
  <2> SUFFICES ASSUME BooksInv PROVE Mem!BooksBalance
    OBVIOUS
  <2>1. {<<b.at, b.request_size>> : b \in ToSet(list)} = {<<a, held[a]>> : a \in DOMAIN held}
    <3>1. \A b \in ToSet(list) : \E k \in 1..Len(list) : b = list[k]
      BY Elements DEF BooksInv, BooksTypes
    <3>2. \A k \in 1..Len(list) : list[k] \in ToSet(list)
      BY Elements DEF BooksInv, BooksTypes
    <3>3. \A b \in ToSet(list) : b.at \in DOMAIN held /\ held[b.at] = b.request_size
      BY <3>1 DEF BooksInv, Lists
    <3>4. \A a \in DOMAIN held : \E b \in ToSet(list) : b.at = a /\ b.request_size = held[a]
      BY <3>2 DEF BooksInv, Lists
    <3> QED
      BY <3>3, <3>4
  <2>2. Mem!ToSet(list) = ToSet(list)
    BY MemOperators
  <2>3. Mem!MapThenSumSet(LAMBDA a : held[a], DOMAIN held) = Total(held, DOMAIN held)
    BY MemOperators
  <2>4. /\ Len(list) = Cardinality(DOMAIN held) /\ invalid_addresses = mistakes
        /\ total_memory_requested - total_memory_freed = Total(held, DOMAIN held)
    BY DEF BooksInv, BooksTypes, Lists
  <2>5. {<<b.at, b.request_size>> : b \in Mem!ToSet(list)}
          = {<<a, held[a]>> : a \in DOMAIN held}
    BY <2>1, <2>2, Zenon
  <2>6. total_memory_requested - total_memory_freed
          = Mem!MapThenSumSet(LAMBDA a : held[a], DOMAIN held)
    BY <2>3, <2>4, Zenon
  <2>7. Mem!Cardinality(DOMAIN held) = Cardinality(DOMAIN held)
    BY MemOperators
  <2> QED
    BY <2>4, <2>5, <2>6, <2>7 DEF Mem!BooksBalance
<1> QED
  BY <1>1, BooksInvariance, PTL DEF BooksBalance
=============================================================================
