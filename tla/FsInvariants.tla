---------------------------- MODULE FsInvariants ----------------------------
(***************************************************************************)
(* Safety of Fs5600: the image stays sound, and the read-only handlers     *)
(* agree with each other about it.                                         *)
(***************************************************************************)
EXTENDS Fs5600, FsImage

Errnos == {ENOENT, EEXIST, ENOTDIR, EISDIR, EINVAL, ENOSPC, ENOTEMPTY}

\* Type invariant: the block map has no bit outside the map, every block
\* holds a well-formed structure, and ret is an errno or a byte count.
TypeOK ==
  /\ map  \subseteq Blk
  /\ disk \in [Blk -> Content]
  /\ ret  \in {-e : e \in Errnos} \cup Nat
  /\ up   \in {"down", "mounted"}

\* The superblock, the block map and the root inode are never given away, and
\* the root stays a directory (alloc_blk starts at bit 3, block_write refuses
\* block 0, fs_chmod keeps the S_IFMT bits).
ReservedSafe == Reserved(map, disk)

\* Whatever an entry leads to is an inode whose blocks are all marked in the
\* block map and hold what the inode says they hold: no entry dangles, and
\* read-img.py never prints NOT MARKED or NOT ALLOCATED.
LinkedSound == AllSound(map, disk)

\* No block belongs to two files or directories, or twice to one: what is
\* written through one path never shows through another.
Exclusive == NoSharing(disk)

\* The file system has no hard links: an inode has one entry, the root none.
\* fs_unlink and fs_rmdir rely on it when they free what an entry leads to.
SingleEntry == OneEntry(disk)

\* A directory block that is not marked has no entries left: fs_rmdir frees
\* empty directories only, so no file is lost with its directory.
FreedDirsEmpty == EntriesMarked(map, disk)

\* No directory holds two entries with one name, through any sequence of
\* create, mkdir and rename, so the first entry that path2inum meets is the
\* only one.  (A name of 28 letters, which only rename lets in, is never
\* found and may be there twice.)
UniqueNames == DistinctNames(disk)

\* What getattr tells of every path that exists, but for the mtime of
\* directories.
Visible ==
  [p \in {q \in Paths : Exists(q)} |->
     LET in == disk[path2inum(p)]
     IN  <<in.type, in.perm, in.size, in.ctime,
            IF in.type = "file" THEN in.mtime ELSE 0>>]

-----------------------------------------------------------------------------
(***************************************************************************)
(* Reachability and space.                                                 *)
(***************************************************************************)
\* Every inode with an entry is found by path2inum, along exactly one path:
\* the entries form a tree rooted at inode 2.  A name of 28 letters is never
\* found, and its NUL may cut off a directory; then there are inodes without
\* a path, but still none with two.
OnePath ==
  \A i \in Linked(disk) :
    LET found == {p \in Paths : path2inum(p) = i}
    IN  Cardinality(found) = 1 \/ (found = {} /\ LongEntered(disk))

\* Every marked block is in use: what unlink, rmdir and truncate free is all
\* that create, mkdir and write allocated.  It holds as long as no directory
\* and no block map fills up.
NoLeak == map = InUse(disk)

\* A step in which the process ends because the last free block is taken.
OutOfBlocks == up = "mounted" /\ up' = "down" /\ FreeBits(map') = {}

\* A step in which create or mkdir gives up with blocks allocated, because a
\* directory is full.
OutOfSlots ==
  /\ ret' = -EINVAL /\ map' # map
  /\ \E i \in Linked(disk) : S_ISDIR(i) /\ FreeSlots(Dirs(i)) = {}

\* A step in which the NUL of a name of 28 letters erases the next entry.
NameTooLong ==
  \E b \in Blk, k, l \in Slots :
    /\ l = k + 1
    /\ IsEntry(disk, b, l) /\ ~IsEntry(disk', b, l)
    /\ IsEntry(disk', b, k) /\ disk'[b].ents[k].name \in LongNames

AtLimit == OutOfBlocks \/ OutOfSlots \/ NameTooLong

\* These are the only ways to lose blocks: a request in an image without
\* leaked blocks leaks one only when it meets the end of the block map, of a
\* directory or of the field for a name.  In particular no error path that is
\* taken before that, and no size at a block boundary, leaks.
LeaksOnlyAtLimits == [][NoLeak => NoLeak' \/ AtLimit]_vars

\* The blocks statfs reports as used are the blocks stat reports for all
\* files and directories, and one more for each inode.
Accounting ==
  fs_statfs.f_blocks - fs_statfs.f_bfree =
    MapThenSumSet(LAMBDA p : 1 + fs_getattr(p).stat.st_blocks,
                  {p \in Paths : fs_getattr(p).ret = 0})

\* readdir lists a name, with its attributes, exactly when getattr finds it.
\* (A name of 28 letters is listed and never found.)
ReaddirAgrees ==
  \A p \in Paths :
    fs_readdir(p).ret = 0 /\ Len(p) < MaxDepth =>
      {f \in fs_readdir(p).filled : f[1] \notin LongNames} =
        {<<n, fs_getattr(Append(p, n)).stat>> :
           n \in {x \in AllNames : fs_getattr(Append(p, x)).ret = 0}}
=============================================================================
