---------------------------- MODULE MCRefinement ----------------------------
(***************************************************************************)
(* FsRefinement for TLC, with the symmetry, the view and the bound of      *)
(* MCFs5600.                                                               *)
(***************************************************************************)
EXTENDS FsRefinement

Symmetry == Permutations(Names)

LivePtrs(in) == [q \in PtrIdx |-> IF q < nblocks(in) THEN in.ptrs[q] ELSE NoPtr]
LiveBlock(b) == IF disk[b].kind = "inode"
                THEN [disk[b] EXCEPT !.ptrs = LivePtrs(disk[b])]
                ELSE disk[b]
LiveBlocks == {b \in Blk : b \in map \/ \E k \in Slots : IsEntry(disk, b, k)}
View == <<map, [b \in LiveBlocks |-> LiveBlock(b)], up>>
=============================================================================
