------------------------------ MODULE MCBytes -------------------------------
(***************************************************************************)
(* FileBytes for TLC.                                                      *)
(***************************************************************************)
EXTENDS FileBytes

Symmetry == Permutations(Names) \cup Permutations(Bytes)

\* As in MCFs5600, without what no handler reads again.  The bytes of blocks
\* that are not marked are kept, since the next owner of the block reads them.
LivePtrs(in) == [q \in PtrIdx |-> IF q < nblocks(in) THEN in.ptrs[q] ELSE NoPtr]
LiveBlock(b) == IF disk[b].kind = "inode"
                THEN [disk[b] EXCEPT !.ptrs = LivePtrs(disk[b])]
                ELSE disk[b]
LiveBlocks == {b \in Blk : b \in map \/ \E k \in Slots : IsEntry(disk, b, k)}
View == <<map, [b \in LiveBlocks |-> LiveBlock(b)], up, bytes>>
=============================================================================
