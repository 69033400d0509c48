-------------------------------- MODULE Ext2 --------------------------------
(***************************************************************************)
(* Ext2Fs::read_inode_data (kernel/src/fs/ext2.rs): the content of a file, *)
(* gathered through direct and one-, two- and three-fold indirect blocks.  *)
(*                                                                         *)
(* The code is four nests of for loops.  Here every running loop is an     *)
(* element of the stack `loops`: the depth of its pointers and the         *)
(* pointers it has left; a pass of the innermost loop is a step.  A read   *)
(* of a block never fails (the driver of the device is registered).        *)
(***************************************************************************)
EXTENDS Naturals, Sequences, FiniteSets, FiniteSetsExt, SequencesExt

CONSTANTS
    block_size,     \* bytes in a block
    DIRECT,         \* 12: the direct pointers of an inode
    PTRS,           \* pointers in a block, block_size / 4
    Sizes           \* the file sizes tried

ASSUME Ext2Assumption ==
    /\ block_size \in Nat \ {0} /\ DIRECT \in Nat \ {0}
    /\ PTRS \in Nat \ {0} /\ Sizes \subseteq Nat

(***************************************************************************)
(* A pointer is the path of slot numbers that leads to it from the inode:  *)
(* <<k>> is i_block[k], and p \o <<k>> is slot k of the indirect block at  *)
(* p.  Slots DIRECT + d, d = 1..3, of the inode point to blocks of depth d.*)
(***************************************************************************)
Pointers(p) == [k \in 1 .. PTRS |-> Append(p, k)]
Below(paths) ==
    [n \in 1 .. Len(paths) * PTRS |-> Pointers(paths[(n - 1) \div PTRS + 1])[((n - 1) % PTRS) + 1]]
Indirect(d) == << <<DIRECT + d>> >>

\* The blocks of a file, in the order of its bytes.
FileOrder ==
    [k \in 1 .. DIRECT |-> <<k>>] \o Below(Indirect(1)) \o Below(Below(Indirect(2)))
    \o Below(Below(Below(Indirect(3))))
PointerOrder ==
    Indirect(1) \o Indirect(2) \o Below(Indirect(2))
    \o Indirect(3) \o Below(Indirect(3)) \o Below(Below(Indirect(3)))
AllPointers == ToSet(FileOrder) \cup ToSet(PointerOrder)

\* Bound: at most two pointers of an image are 0.
Holes == {{}} \cup {{p, q} : p, q \in AllPointers}

VARIABLES
    i_size,     \* the inode's size
    zero,       \* the pointers that are 0 on the disk
    loops,      \* the running loops, innermost first
    data,       \* the bytes gathered: pairs <<block, position in the block>>
    remaining

vars == <<i_size, zero, loops, data, remaining>>

Loop(depth, pointers) == [depth |-> depth, pointers |-> pointers]

Init ==
    /\ i_size \in Sizes
    /\ zero \in Holes
    /\ loops = <<Loop(0, [k \in 1 .. DIRECT |-> <<k>>])>>
               \o [d \in 1 .. 3 |-> Loop(d, Indirect(d))]
    /\ data = <<>>
    /\ remaining = i_size

-----------------------------------------------------------------------------
\* Mutant: only whole blocks are read.
runs_whole_blocks(loop) ==
    loop.pointers # <<>> /\ Head(loop.pointers) \notin zero /\ remaining >= block_size

\* A loop ends at its last pointer, at a pointer that is 0 and with the file.
runs(loop) == loop.pointers # <<>> /\ Head(loop.pointers) \notin zero /\ remaining > 0

Advanced == <<Loop(Head(loops).depth, Tail(Head(loops).pointers))>> \o Tail(loops)

EndLoop ==
    /\ loops # <<>> /\ ~runs(Head(loops))
    /\ loops' = Tail(loops)
    /\ UNCHANGED <<i_size, zero, data, remaining>>

\* Mutant: the last block is copied whole.
to_copy_block == block_size

to_copy == Min({remaining, block_size})

CopyBlock ==
    /\ loops # <<>> /\ runs(Head(loops)) /\ Head(loops).depth = 0
    /\ data' = data \o [k \in 1 .. to_copy |-> <<Head(Head(loops).pointers), k>>]
    /\ remaining' = remaining - to_copy
    /\ loops' = Advanced
    /\ UNCHANGED <<i_size, zero>>

ReadPointers ==
    /\ loops # <<>> /\ runs(Head(loops)) /\ Head(loops).depth > 0
    /\ loops' = <<Loop(Head(loops).depth - 1, Pointers(Head(Head(loops).pointers)))>> \o Advanced
    /\ UNCHANGED <<i_size, zero, data, remaining>>

Next == EndLoop \/ CopyBlock \/ ReadPointers

Spec == Init /\ [][Next]_vars /\ WF_vars(Next)

-----------------------------------------------------------------------------
(* Properties                                                              *)

\* A block is part of the file's data if no pointer on the way to it is 0.
Allocated(p) == \A n \in 1 .. Len(p) : SubSeq(p, 1, n) \notin zero

\* Byte j (from 1) of a file.
ByteAt(j) == <<FileOrder[(j - 1) \div block_size + 1], ((j - 1) % block_size) + 1>>

\* The bytes before the first hole, or all of them.
Dense ==
    LET holes == {j \in 1 .. i_size : ~Allocated(ByteAt(j)[1])}
    IN  IF holes = {} THEN i_size ELSE Min(holes) - 1

\* Up to its first hole a file is read byte for byte in order, across the
\* borders of the direct, indirect and doubly and triply indirect blocks, and
\* never past i_size (Ext2Fs::read_inode_data).
ReadInOrder ==
    /\ Len(data) + remaining = i_size /\ Len(data) <= i_size
    /\ \A j \in 1 .. Len(data) : j <= Dense => data[j] = ByteAt(j)

\* The loops end, and then a file's dense part has been read in full.
ReadInFull == <>(loops = <<>> /\ Len(data) >= Dense)

\* kernel/src/fs/ext2.rs:176, "Phase 1: Only support direct blocks for now
\* (12 * block_size bytes max)".  Violated: the code below that comment also
\* follows the indirect blocks.
DirectBlocksOnly == Len(data) <= DIRECT * block_size

=============================================================================
