------------------------------- MODULE MCExt2 -------------------------------
(* Two direct pointers, two pointers in a block, two bytes in a block; two  *)
(* groups of two inodes, a root directory of up to two records.             *)
EXTENDS Ext2Dir

Rec(inode, name, len, need) == [inode |-> inode, name |-> name, rec_len |-> len, need |-> need]
R(inode, name, len) == Rec(inode, name, len, 1)
MCStale == Rec(4, "gone", 1, 1)

\* Records for a directory, a file, a deleted file, a missing inode, the directory
\* itself, a name that is not UTF-8, and names that run over the end of the record.
Roots ==
    UNION {[1 .. n -> {R(3, "a", 1), R(3, "a", 2), R(4, "b", 1), R(0, "b", 2), R(0, "a", 0),
                       R(4, "b", 0), R(5, "b", 3), R(2, ".", 1), R(4, "bad", 1),
                       Rec(3, "a", 2, 2), Rec(4, "b", 1, 2), Rec(0, "b", 1, 3)}] : n \in 0 .. 2}
Thirds == {[kind |-> "file", records |-> <<>>],
           [kind |-> "dir", records |-> <<R(3, ".", 1), R(2, "..", 2), R(4, "b", 1)>>]}
File == [kind |-> "file", records |-> <<>>]

\* Blocks of 1 KB, the superblock in block 1; larger blocks; too few
\* blocks; no signature.  The second group has one block.
Superblocks == {<<"ext2", 1, 6>>, <<"ext2", 0, 5>>, <<"ext2", 0, 4>>, <<"other", 0, 5>>}

MCDisks ==
    {[magic |-> sb[1], first_data_block |-> sb[2], blocks_count |-> sb[3], blocks_per_group |-> 4,
      tables |-> << <<File, [kind |-> "dir", records |-> r]>>, <<t, File>> >>] :
        r \in Roots, t \in Thirds, sb \in Superblocks}
MCPaths == {<<>>, <<"a">>, <<"b">>, <<"gone">>, <<"a", "b">>, <<"a", "..", "b">>}

=============================================================================
