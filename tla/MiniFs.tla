------------------------------- MODULE MiniFs -------------------------------
(***************************************************************************)
(* finding_filesystems/minixfs.c: the inode of one directory, and the      *)
(* creation of files in it.  The directory is a file of entries of one     *)
(* size, in the blocks that its direct array and then its indirect block   *)
(* name.  minixfs.h and minixfs_utils.c are not in the repository; how the *)
(* code uses them gives first_unused_inode, first_unused_data, init_inode  *)
(* and get_inode.  minixfs_write and minixfs_read are left out.            *)
(***************************************************************************)
EXTENDS Integers, FiniteSets, FiniteSetsExt

CONSTANTS
  NUM_DIRECT_BLOCKS, NUM_INDIRECT_BLOCKS,
  EntriesPerBlock,   (* sizeof(data_block) / FILE_NAME_ENTRY               *)
  DATA_NUMBER,       (* data blocks of the file system                     *)
  Names,             (* valid file names, and inode numbers: each file     *)
                     (* takes an inode of its own                          *)
  Users,             (* effective users; 0 is root                         *)
  MaxInodes          (* inodes of the file system                          *)

VARIABLES
  inode,      (* of the directory: uid, gid, mode (classes that may write), *)
              (* size in entries, direct, indirect                          *)
  entries,    (* per data block, the names written at its places            *)
  block_arr,  (* per data block, its contents read as block numbers         *)
  used,       (* data blocks marked used                                    *)
  files,      (* names with an inode                                        *)
  outside     (* a data block number was written or read out of its array   *)

vars == <<inode, entries, block_arr, used, files, outside>>

Blocks == 0..(DATA_NUMBER - 1)
None == -1
NoName == "none"
Classes == {"user", "group", "others"}

Init ==
  /\ inode = [uid |-> Max(Users), gid |-> Max(Users), mode |-> {"user"}, size |-> 0,
              direct |-> [k \in 0..(NUM_DIRECT_BLOCKS - 1) |-> None], indirect |-> None]
  /\ entries = [b \in Blocks |-> [k \in 0..(EntriesPerBlock - 1) |-> NoName]]
  /\ block_arr = [b \in Blocks |-> [k \in 0..(NUM_INDIRECT_BLOCKS - 1) |-> None]]
  /\ used = {} /\ files = {} /\ outside = FALSE

(* `mode |= (mode >> 9) << 9` after the assignment changes nothing: the     *)
(* type bits of the old mode are gone.                                      *)
minixfs_chmod(new_permissions) ==
  /\ inode' = [inode EXCEPT !.mode = new_permissions]
  /\ UNCHANGED <<entries, block_arr, used, files, outside>>

(* An owner or a group of -1 stays as it is. *)
minixfs_chown(owner, group) ==
  /\ inode' = [inode EXCEPT !.uid = IF owner = -1 THEN @ ELSE owner,
                            !.gid = IF group = -1 THEN @ ELSE group]
  /\ UNCHANGED <<entries, block_arr, used, files, outside>>

permission_set(euid, egid) ==
  CASE euid = 0 \/ euid = inode.uid -> "user"
    [] euid # 0 /\ euid # inode.uid /\ egid = inode.gid -> "group"
    [] OTHER -> "others"

write_permission(class) == class \in inode.mode

(* first_unused_data, given the blocks in use *)
first_unused_data(u) == IF Blocks \subseteq u THEN None ELSE Min(Blocks \ u)

(* The new entry is in the block, the parent has grown and the child has    *)
(* its inode.                                                               *)
Grown(node, name, b, place) ==
  /\ inode' = [node EXCEPT !.size = @ + 1]
  /\ entries' = [entries EXCEPT ![b][place] = name]
  /\ files' = files \cup {name}

block_num == inode.size \div EntriesPerBlock
block_remain == inode.size % EntriesPerBlock

(* file_size <= NUM_DIRECT_BLOCKS * sizeof(data_block): with all the direct *)
(* blocks full this still holds, and the number of the new block goes to    *)
(* direct[NUM_DIRECT_BLOCKS], which is the field behind it or another one.  *)
DirectEntry(name) ==
  /\ inode.size <= NUM_DIRECT_BLOCKS * EntriesPerBlock
  /\ \/ /\ block_remain = 0
        /\ LET new_block == first_unused_data(used) IN
           /\ new_block # None
           /\ used' = used \cup {new_block}
           /\ outside' = (block_num >= NUM_DIRECT_BLOCKS)
           /\ IF block_num < NUM_DIRECT_BLOCKS
              THEN Grown([inode EXCEPT !.direct[block_num] = new_block], name, new_block, 0)
              ELSE \E lands \in {inode.indirect, new_block} :
                     Grown([inode EXCEPT !.indirect = lands], name, new_block, 0)
     \/ /\ block_remain # 0
        /\ Grown(inode, name, inode.direct[block_num], block_remain)
        /\ UNCHANGED <<used, outside>>
  /\ UNCHANGED block_arr

(* The indirect block is assigned first, and stays assigned when there is   *)
(* no block left for the entry.                                             *)
FirstIndirect(name) ==
  LET indirect_array == first_unused_data(used)
      new_block == first_unused_data(used \cup {indirect_array})
  IN /\ inode.indirect = None /\ indirect_array # None
     /\ \/ /\ new_block # None
           /\ block_arr' = [block_arr EXCEPT ![indirect_array][0] = new_block]
           /\ used' = used \cup {indirect_array, new_block}
           /\ Grown([inode EXCEPT !.indirect = indirect_array], name, new_block, 0)
        \/ /\ new_block = None
           /\ used' = used \cup {indirect_array}
           /\ inode' = [inode EXCEPT !.indirect = indirect_array]
           /\ UNCHANGED <<entries, files, block_arr>>
     /\ UNCHANGED outside

(* The place is out of the array of block numbers, or holds none: a write   *)
(* or a read outside.                                                       *)
LaterIndirect(name) ==
  LET k == block_num - NUM_DIRECT_BLOCKS
      new_block == first_unused_data(used)
      old_block == IF k \in 0..(NUM_INDIRECT_BLOCKS - 1)
                   THEN block_arr[inode.indirect][k] ELSE None
  IN /\ inode.indirect # None
     /\ \/ /\ block_remain # 0 /\ old_block # None
           /\ Grown(inode, name, old_block, block_remain)
           /\ UNCHANGED <<block_arr, used, outside>>
        \/ /\ (block_remain # 0 /\ old_block = None) \/ k >= NUM_INDIRECT_BLOCKS
           /\ outside' = TRUE
           /\ UNCHANGED <<inode, entries, files, block_arr, used>>
        \/ /\ block_remain = 0 /\ new_block # None /\ k < NUM_INDIRECT_BLOCKS
           /\ block_arr' = [block_arr EXCEPT ![inode.indirect][k] = new_block]
           /\ used' = used \cup {new_block}
           /\ Grown(inode, name, new_block, 0)
           /\ UNCHANGED outside

minixfs_create_inode_for_path(name, euid, egid) ==
  /\ name \notin files
  /\ Cardinality(files) < MaxInodes
  /\ write_permission(permission_set(euid, egid))
  /\ \/ DirectEntry(name)
     \/ /\ inode.size > NUM_DIRECT_BLOCKS * EntriesPerBlock
        /\ inode.size <= (NUM_DIRECT_BLOCKS + NUM_INDIRECT_BLOCKS) * EntriesPerBlock
        /\ FirstIndirect(name) \/ LaterIndirect(name)

Next ==
  \/ \E name \in Names, u, g \in Users : minixfs_create_inode_for_path(name, u, g)
  \/ \E m \in SUBSET Classes : minixfs_chmod(m)
  \/ \E u, g \in Users \cup {-1} : minixfs_chown(u, g)

Spec == Init /\ [][Next]_vars

(***************************************************************************)
(* Properties.                                                             *)
(***************************************************************************)
(* Every entry of the directory is in the block that the inode leads to at  *)
(* its place, through direct and, once "direct block full", through the     *)
(* indirect block (minixfs.c:169).                                          *)
EntriesReachable ==
  LET BlockAt(k) == IF k < NUM_DIRECT_BLOCKS THEN inode.direct[k]
                    ELSE IF inode.indirect = None THEN None
                    ELSE block_arr[inode.indirect][k - NUM_DIRECT_BLOCKS]
      NameAt(j) == LET b == BlockAt(j \div EntriesPerBlock)
                   IN IF b = None THEN NoName ELSE entries[b][j % EntriesPerBlock]
  IN {NameAt(j) : j \in 0..(inode.size - 1)} = files
=============================================================================
