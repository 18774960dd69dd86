------------------------------ MODULE FsImage -------------------------------
(***************************************************************************)
(* What makes an image of the fs5600 file system sound, as predicates of   *)
(* a block map m and the contents d of the blocks.                         *)
(***************************************************************************)
EXTENDS FsFormat

\* Slot k of block b holds a directory entry.
IsEntry(d, b, k) == d[b].kind = "dir" /\ d[b].ents[k].valid

\* The root, and the inode numbers that some entry, in whatever directory
\* block, names.
Linked(d) ==
  {RootInum} \cup
  {i \in Blk : \E b \in Blk, k \in Slots :
                 IsEntry(d, b, k) /\ d[b].ents[k].inode = i}

\* The pointers of an inode that its type and size make meaningful.
UsedPtrs(in) == IF in.type = "dir" THEN {0} ELSE 0 .. nblocks(in) - 1

\* The blocks that inode i stands for: itself and what it points to.
Owned(d, i) == {i} \cup {d[i].ptrs[q] : q \in UsedPtrs(d[i])}

\* The blocks of an image that serve a purpose.
InUse(d) == {0, 1} \cup UNION {Owned(d, i) : i \in Linked(d)}

\* The superblock, the block map and the root inode are in place.
Reserved(m, d) ==
  /\ {0, 1, RootInum} \subseteq m
  /\ d[0] = Super
  /\ d[1] = BlockMap
  /\ d[RootInum].kind = "inode" /\ d[RootInum].type = "dir"

\* Inode i and its blocks are marked in m and hold what the inode says.
InodeSound(m, d, i) ==
  /\ i \in m
  /\ d[i].kind = "inode"
  /\ \A q \in UsedPtrs(d[i]) :
       /\ d[i].ptrs[q] \in m
       /\ d[d[i].ptrs[q]].kind = IF d[i].type = "dir" THEN "dir" ELSE "data"
  /\ d[i].type = "dir" => d[i].size # 0

AllSound(m, d) == \A i \in Linked(d) : InodeSound(m, d, i)

\* No block belongs to two inodes, or twice to one.
NoSharing(d) ==
  /\ \A i, j \in Linked(d) : i # j => Owned(d, i) \cap Owned(d, j) = {}
  /\ \A i \in Linked(d) : \A q, r \in UsedPtrs(d[i]) :
       d[i].ptrs[q] = d[i].ptrs[r] => q = r

\* An inode has at most one entry, and the root has none.
OneEntry(d) ==
  \A b, c \in Blk, k, l \in Slots :
    IsEntry(d, b, k) /\ IsEntry(d, c, l) =>
      /\ d[b].ents[k].inode # RootInum
      /\ d[b].ents[k].inode = d[c].ents[l].inode => b = c /\ k = l

\* A block that holds an entry is marked.
EntriesMarked(m, d) == \A b \in Blk, k \in Slots : IsEntry(d, b, k) => b \in m

\* All of it: an image on which every handler is safe to run.
SoundImage(m, d) ==
  /\ m \subseteq Blk
  /\ d \in [Blk -> Content]
  /\ Reserved(m, d)
  /\ AllSound(m, d)
  /\ NoSharing(d)
  /\ OneEntry(d)
  /\ EntriesMarked(m, d)

\* No directory holds two entries with one name, of those that fit an entry.
DistinctNames(d) ==
  \A b \in Blk, k, l \in Slots :
    /\ IsEntry(d, b, k) /\ IsEntry(d, b, l)
    /\ d[b].ents[k].name = d[b].ents[l].name
    /\ d[b].ents[k].name \notin LongNames
    => k = l

\* Some entry has a name that does not fit it.
LongEntered(d) ==
  \E b \in Blk, k \in Slots : IsEntry(d, b, k) /\ d[b].ents[k].name \in LongNames
=============================================================================
