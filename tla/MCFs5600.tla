------------------------------ MODULE MCFs5600 ------------------------------
(***************************************************************************)
(* Fs5600 for TLC.                                                         *)
(***************************************************************************)
EXTENDS FsDocumented

Symmetry == Permutations(Names)

\* States that differ only in what no handler reads again are one state: the
\* content of unmarked blocks, pointers past the end of a file, and ret.  An
\* unmarked block with entries is kept, because the invariants look at it.
LivePtrs(in) == [q \in PtrIdx |-> IF q < nblocks(in) THEN in.ptrs[q] ELSE NoPtr]
LiveBlock(b) == IF disk[b].kind = "inode"
                THEN [disk[b] EXCEPT !.ptrs = LivePtrs(disk[b])]
                ELSE disk[b]
LiveBlocks == {b \in Blk : b \in map \/ \E k \in Slots : IsEntry(disk, b, k)}
View == <<map, [b \in LiveBlocks |-> LiveBlock(b)], up>>

\* Room for one more directory: no request meets a full block map.
RoomLeft == Cardinality(FreeBits(map)) >= 2
=============================================================================
