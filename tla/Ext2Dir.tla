------------------------------- MODULE Ext2Dir -------------------------------
(***************************************************************************)
(* Directories of the ext2 reader: mount, get_inode, resolve_path and      *)
(* list_dir, with ls (rust_vfs_list_print), which lists what resolve_path  *)
(* found.  A behaviour mounts a disk and makes one call on it.             *)
(* A call is "read" (read_inode_data, module Ext2), "resolve" or "list".   *)
(*                                                                         *)
(* A directory's data is a sequence of slots, a record in each.  rec_len   *)
(* leads from a record to the next and steps over slots in between: ext2   *)
(* deletes an entry by lengthening the record before it, and the old       *)
(* record stays on the disk.  read_inode_data of a directory is one step   *)
(* that returns all its slots.  A name is what its bytes are; from_utf8    *)
(* makes a string of it, or "" where it fails (text).                      *)
(***************************************************************************)
EXTENDS Ext2

CONSTANTS
    inodes_per_group,
    Disks,          \* superblock fields, and the inode table of each group
    Paths,          \* the paths asked for: sequences of names, none of them empty
    BadNames,       \* the names that are not UTF-8
    Stale           \* the record left in a slot that is stepped over

EXT2_ROOT_INODE == 2
Empty == ""          \* no name

(***************************************************************************)
(* An inode is a file, or a directory given by its records in order.  A    *)
(* record names an inode (0: deleted) and its rec_len counts its own slot  *)
(* and the stale ones after it; that of a damaged record is 0.  Its header *)
(* and name take need slots, by name_len: more than rec_len if that is     *)
(* wrong.  (Slicing the header out of data that end in the middle of it    *)
(* panics as well: a last record with an inode and too large a need.)      *)
(***************************************************************************)
dir_data(records) ==
    FlattenSeq([k \in DOMAIN records |->
        <<records[k]>> \o [j \in 1 .. Max({records[k].rec_len - 1, 0}) |-> Stale]])

Records == [inode : Nat, name : STRING, rec_len : Nat, need : Nat \ {0}]
Inodes == [kind : {"file", "dir"}, records : Seq(Records)]

ASSUME Ext2DirAssumption ==
    /\ inodes_per_group \in Nat \ {0} /\ Stale \in Records /\ BadNames \subseteq STRING
    /\ Paths \subseteq Seq(STRING)
    /\ \A p \in Paths : \A k \in DOMAIN p : p[k] # Empty /\ p[k] \notin BadNames
    /\ \A d \in Disks :
          /\ d.magic \in {"ext2", "other"}
          /\ d.first_data_block \in {0, 1} /\ d.blocks_count \in Nat /\ d.blocks_per_group \in Nat \ {0}
          /\ d.tables \in Seq(Seq(Inodes))
          /\ \A g \in DOMAIN d.tables : Len(d.tables[g]) = inodes_per_group

VARIABLES
    disk, call, path,
    phase,              \* "mount", "search", "scan", "list", "done" or "panic"
    groups_count,       \* the group descriptors read at mount
    part,               \* the part of the path at hand
    current_inode_num,  \* 0 for None
    offset,             \* in dir_data
    entries             \* the names list_dir gathered

dir_vars == <<disk, call, path, phase, groups_count, part, current_inode_num, offset, entries>>
all_vars == <<vars, dir_vars>>

DirInit ==
    /\ groups_count = 0 /\ part = 1 /\ current_inode_num = EXT2_ROOT_INODE /\ offset = 1 /\ entries = <<>>
    /\ disk \in Disks
    /\ \/ /\ call = "read" /\ path = <<>> /\ phase = "done" /\ disk = CHOOSE d \in Disks : TRUE
          /\ Init
       \/ /\ call \in {"resolve", "list"} /\ path \in Paths /\ phase = "mount"
          /\ i_size = 0 /\ zero = {} /\ loops = <<>> /\ data = <<>> /\ remaining = 0

-----------------------------------------------------------------------------
groups ==
    (disk.blocks_count - disk.first_data_block + disk.blocks_per_group - 1) \div disk.blocks_per_group

\* Without the signature there is no file system, and nothing is found.
mount ==
    /\ phase = "mount"
    /\ \/ /\ disk.magic = "ext2"
          /\ groups_count' = groups /\ phase' = "search" /\ UNCHANGED current_inode_num
       \/ /\ disk.magic # "ext2"
          /\ current_inode_num' = 0 /\ phase' = "done" /\ UNCHANGED groups_count
    /\ UNCHANGED <<disk, call, path, part, offset, entries, vars>>

inodes_count == inodes_per_group * Len(disk.tables)
Exists(n) == n # 0 /\ n <= inodes_count
bg_idx(n) == (n - 1) \div inodes_per_group

\* Entry n - 1 counted from the first table: group, then place in the group.
get_inode(n) ==
    disk.tables[bg_idx(n) + 1][((n - 1) % inodes_per_group) + 1]

\* block_groups is indexed with bg_idx.
IndexPanics == Exists(current_inode_num) /\ bg_idx(current_inode_num) >= groups_count
IndexPanic ==
    /\ phase = "search" /\ IndexPanics
    /\ part <= Len(path) \/ call = "list"
    /\ phase' = "panic"
    /\ UNCHANGED <<disk, call, path, groups_count, part, current_inode_num, offset, entries, vars>>

IsDir(n) == Exists(n) /\ get_inode(n).kind = "dir"
Slots == dir_data(get_inode(current_inode_num).records)
AtSlot == offset <= Len(Slots)

\* from_utf8(..).unwrap_or("")
text(name) == IF name \in BadNames THEN Empty ELSE name

\* The name would be sliced out of the data past their end.
overruns(r) == r.inode # 0 /\ offset + r.need - 1 > Len(Slots)

matches(r) == r.inode # 0 /\ text(r.name) = path[part]

\* resolve_path, for each part: the inode must be a directory.
EnterDirectory ==
    /\ phase = "search" /\ part <= Len(path) /\ ~IndexPanics
    /\ \/ /\ IsDir(current_inode_num) /\ phase' = "scan" /\ offset' = 1
          /\ UNCHANGED current_inode_num
       \/ /\ ~IsDir(current_inode_num) /\ phase' = "done" /\ current_inode_num' = 0
          /\ UNCHANGED offset
    /\ UNCHANGED <<disk, call, path, groups_count, part, entries, vars>>

\* Mutant: the next slot is taken for the next record.
step_slot(r) == 1

step(r) == r.rec_len

ScanRecord ==
    /\ phase = "scan" /\ AtSlot
    /\ LET r == Slots[offset]
       IN  \/ /\ overruns(r) /\ phase' = "panic"
              /\ UNCHANGED <<current_inode_num, part, offset>>
           \/ /\ ~overruns(r) /\ matches(r)
              /\ current_inode_num' = r.inode /\ part' = part + 1 /\ phase' = "search"
              /\ UNCHANGED offset
           \/ /\ ~overruns(r) /\ ~matches(r)
              /\ offset' = offset + step(r)
              /\ UNCHANGED <<current_inode_num, part, phase>>
    /\ UNCHANGED <<disk, call, path, groups_count, entries, vars>>

NotFound ==
    /\ phase = "scan" /\ ~AtSlot
    /\ current_inode_num' = 0 /\ phase' = "done"
    /\ UNCHANGED <<disk, call, path, groups_count, part, offset, entries, vars>>

\* Every part was found.  ls lists what it found, if that is a directory.
Resolved ==
    /\ phase = "search" /\ part > Len(path) /\ ~(call = "list" /\ IndexPanics)
    /\ phase' = IF call = "list" /\ IsDir(current_inode_num) THEN "list" ELSE "done"
    /\ offset' = 1
    /\ UNCHANGED <<disk, call, path, groups_count, part, current_inode_num, entries, vars>>

\* Mutant: as in resolve_path, a record of length 0 does not end the loop.
list_ends_at_end(r) == FALSE

list_ends(r) == r.rec_len = 0

\* Mutant: a deleted entry is shown.
shown_deleted(r) == r.rec_len > 0 /\ text(r.name) \notin {".", ".."}

shown(r) == r.inode # 0 /\ r.rec_len > 0 /\ text(r.name) \notin {".", ".."}

\* list_dir
ListRecord ==
    /\ phase = "list" /\ AtSlot
    /\ LET r == Slots[offset]
       IN  \/ /\ overruns(r) /\ r.rec_len > 0 /\ phase' = "panic"
              /\ UNCHANGED <<offset, entries>>
           \/ /\ ~(overruns(r) /\ r.rec_len > 0)
              /\ entries' = IF shown(r) THEN Append(entries, text(r.name)) ELSE entries
              /\ phase' = IF list_ends(r) THEN "done" ELSE "list"
              /\ offset' = offset + step(r)
    /\ UNCHANGED <<disk, call, path, groups_count, part, current_inode_num, vars>>

ListEnd ==
    /\ phase = "list" /\ ~AtSlot /\ phase' = "done"
    /\ UNCHANGED <<disk, call, path, groups_count, part, current_inode_num, offset, entries, vars>>

DirNext ==
    \/ Next /\ UNCHANGED dir_vars
    \/ mount \/ IndexPanic \/ EnterDirectory \/ ScanRecord \/ NotFound \/ Resolved \/ ListRecord \/ ListEnd

DirSpec == DirInit /\ [][DirNext]_all_vars /\ WF_all_vars(DirNext)

-----------------------------------------------------------------------------
(* Properties *)

\* Inode n is the n-th of the tables, laid end to end.
Inode(n) == FlattenSeq(disk.tables)[n]

\* What one name leads to from inode n: the first record of that name that was
\* not deleted, 0 if there is none.
Lookup(n, name) ==
    LET records == Inode(n).records
        hits == {k \in DOMAIN records : records[k].inode # 0 /\ text(records[k].name) = name}
    IN  IF n \in 1 .. inodes_count /\ Inode(n).kind = "dir" /\ hits # {}
        THEN records[Min(hits)].inode ELSE 0

\* The inodes that the parts of the path lead to in turn, from the root on.
Trail ==
    LET inode[k \in 0 .. Len(path)] ==
            IF k = 0 THEN EXT2_ROOT_INODE ELSE Lookup(inode[k - 1], path[k])
    IN  inode

\* The names in the first k records of a directory: what was not deleted, without
\* the directory itself and its parent.
Names(records) ==
    LET names[k \in 0 .. Len(records)] ==
            IF k = 0 THEN <<>>
            ELSE IF records[k].inode # 0 /\ text(records[k].name) \notin {".", ".."}
                 THEN Append(names[k - 1], text(records[k].name)) ELSE names[k - 1]
    IN  names

\* Some directory has a record of length 0.
Damaged ==
    \E n \in 1 .. inodes_count :
        Inode(n).kind = "dir" /\ \E k \in DOMAIN Inode(n).records : Inode(n).records[k].rec_len = 0

\* Some directory has a record whose name does not fit into it.
Overlong ==
    \E n \in 1 .. inodes_count :
        /\ Inode(n).kind = "dir"
        /\ \E k \in DOMAIN Inode(n).records :
              Inode(n).records[k].need > Max({Inode(n).records[k].rec_len, 1})

\* resolve_path answers as a lookup in the records of each directory in turn
\* would: stale records in stepped-over slots and deleted ones are never found,
\* and inode numbers lead to the right inode across groups.
ResolvesAsNamed ==
    (call = "resolve" /\ phase = "done" /\ disk.magic = "ext2" /\ ~Damaged) =>
        current_inode_num = Trail[Len(path)]

\* ls shows the names of a directory, each once and in order, and each of them is
\* a name that resolve_path finds there, except "": that is shown for a name that
\* is empty or not UTF-8, and no path asks for it.  A damaged directory is shown up
\* to the damage.
ListsWhatResolves ==
    (call = "list" /\ phase = "done" /\ current_inode_num # 0) =>
        /\ (IsDir(current_inode_num) /\ ~Damaged) =>
              LET records == Inode(current_inode_num).records
              IN  entries = Names(records)[Len(records)]
        /\ \A k \in DOMAIN entries :
              entries[k] # Empty => Lookup(current_inode_num, entries[k]) # 0

\* The superblock's block count agrees with the number of groups.
Consistent ==
    LET blocks == disk.blocks_count - disk.first_data_block
        n == Len(disk.tables)
    IN  (n - 1) * disk.blocks_per_group < blocks /\ blocks <= n * disk.blocks_per_group

\* Every call ends in an answer on a disk that agrees with itself.  A panic (with
\* the mutex held) needs a superblock that counts fewer groups than its inodes are
\* in, however full the last group is, or a name that does not fit into its record;
\* stale bytes that are stepped over never cause one.  Only resolve_path stays at a
\* record of length 0 for ever, also with the mutex held.
CallsEnd ==
    <>(\/ phase = "done"
       \/ phase = "panic" /\ (~Consistent \/ Overlong)
       \/ phase = "scan" /\ Damaged)

\* Violated: a record of length 0 holds resolve_path for ever, although list_dir
\* stops at one (kernel/src/fs/ext2.rs:316).
EveryCallEnds == <>(phase = "done")

=============================================================================
