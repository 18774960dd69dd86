------------------------------- MODULE Fs5600 -------------------------------
(***************************************************************************)
(* The handlers of fs5600.c on one disk image, each of them atomic: the    *)
(* behaviour of the file system when FUSE delivers one request at a time.  *)
(* A handler is an action whose parameters are the request; its result is  *)
(* the value of ret.  The handlers that change nothing (statfs, getattr,   *)
(* readdir, read) are operators on the state.                              *)
(*                                                                         *)
(* Simplifications:                                                        *)
(*   - a path is the sequence of its components, as strtok yields it;      *)
(*   - the image is valid, so block_read and block_write do not return     *)
(*     -EIO; a block past the end of the image file is read and written    *)
(*     like any other, because write() extends the file;                   *)
(*   - uid, gid and the bytes of data blocks are left out.                 *)
(***************************************************************************)
EXTENDS FsFormat

VARIABLES
  map,    \* the bits that are set in the block map
  disk,   \* the content of every block
  ret,    \* what the last handler returned: an errno (negative) or a count
  up      \* the lab4fuse process: "down" (not running) or "mounted"

vars == <<map, disk, ret, up>>

(***************************************************************************)
(* The image gen-disk.py makes of disk2.in: an empty root directory.       *)
(***************************************************************************)
Image(perm, t) ==
  [b \in Blk |->
     CASE b = 0          -> Super
       [] b = 1          -> BlockMap
       [] b = RootInum   -> NewInode("dir", perm, t, BlockSize, RootDirBlk)
       [] b = RootDirBlk -> EmptyDir
       [] OTHER          -> Zeros]

Init ==
  /\ map  = {0, 1, RootInum, RootDirBlk}
  /\ disk \in {Image(perm, t) : perm \in Perms, t \in Times}
  /\ ret  = 0
  /\ up   = "down"

-----------------------------------------------------------------------------
(***************************************************************************)
(* The block map: bit operations, alloc_blk and free_blk.                  *)
(***************************************************************************)
bit_set(m, B)   == m \cup B
bit_clear(m, B) == m \ B

\* Mutation: the scan runs one bit past the end of the map.
FreeBits_past_end(m) == (3 .. NumBits) \ m

\* alloc_blk looks at every bit from 3 up, whatever the size of the disk.
FreeBits(m) == (3 .. NumBits - 1) \ m

\* alloc_blk on a map m; its caller sets the bit with bit_set.
alloc_blk(m) == IF FreeBits(m) = {} THEN -ENOSPC ELSE Min(FreeBits(m))

\* free_blk on each block of B
free_blk(m, B) == bit_clear(m, B)

-----------------------------------------------------------------------------
(***************************************************************************)
(* Inodes, directories and path translation.                               *)
(***************************************************************************)
S_ISDIR(i) == disk[i].type = "dir"

\* The block with the entries of directory i, and the entries.
DirBlkOf(i) == disk[i].ptrs[0]
Dirs(i)     == disk[DirBlkOf(i)].ents

\* Mutation: the search begins at the second slot.
Hits_skip_first(i, n) ==
  {k \in Slots \ {0} : Dirs(i)[k].valid /\ Dirs(i)[k].name = n}

\* The valid entries of directory i with name n.
Hits(i, n) == {k \in Slots : Dirs(i)[k].valid /\ Dirs(i)[k].name = n}

\* One turn of the loop in path2inum: the j-th name of path p is looked up in
\* the directory with inode number c (or c is the error of an earlier turn).
\* A missing last name gives ENOENT in the root directory, ENOTDIR elsewhere.
walk(p, j, c) ==
  IF c < 0 THEN c
  ELSE IF p[j] \in LongNames \/ disk[c].size = 0
  THEN IF j < Len(p) THEN -ENOTDIR ELSE -ENOENT
  ELSE IF Hits(c, p[j]) = {}
  THEN IF Len(p) > 1 /\ j = Len(p) THEN -ENOTDIR ELSE -ENOENT
  ELSE LET i == Dirs(c)[Min(Hits(c, p[j]))].inode
       IN  IF j < Len(p) /\ ~S_ISDIR(i) THEN -ENOTDIR ELSE i

path2inum(p) ==
  LET w[j \in 0 .. Len(p)] == IF j = 0 THEN RootInum ELSE walk(p, j, w[j - 1])
  IN  w[Len(p)]

Exists(p) == path2inum(p) > 0

\* The test on the result of path2inum in getattr, read, write, truncate and
\* utime: 0 for a path that exists.
path_errno(p) ==
  CASE Exists(p)                 -> 0
    [] path2inum(p) = -ENOTDIR   -> -ENOTDIR
    [] OTHER                     -> -ENOENT

\* The same, followed by the refusal of directories in the last four.
file_errno(p) ==
  IF path_errno(p) # 0 THEN path_errno(p)
  ELSE IF S_ISDIR(path2inum(p)) THEN -EISDIR
  ELSE 0

-----------------------------------------------------------------------------
(***************************************************************************)
(* Handlers that change nothing.                                           *)
(***************************************************************************)
\* Mutation: one block more than the size needs.
inode2stat_extra(i) ==
  LET in == disk[i]
  IN  [st_ino    |-> i,
       st_mode   |-> <<in.type, in.perm>>,
       st_nlink  |-> 1,
       st_size   |-> in.size,
       st_blocks |-> IF S_ISDIR(i) THEN 1 ELSE in.size \div BlockSize + 1,
       st_atim   |-> in.ctime,
       st_mtim   |-> in.mtime,
       st_ctim   |-> in.ctime]

inode2stat(i) ==
  LET in == disk[i]
  IN  [st_ino    |-> i,
       st_mode   |-> <<in.type, in.perm>>,
       st_nlink  |-> 1,
       st_size   |-> in.size,
       st_blocks |-> IF S_ISDIR(i) THEN 1 ELSE nblocks(in),
       st_atim   |-> in.ctime,
       st_mtim   |-> in.mtime,
       st_ctim   |-> in.ctime]

fs_getattr(p) ==
  IF path_errno(p) # 0 THEN [ret |-> path_errno(p)]
  ELSE [ret |-> 0, stat |-> inode2stat(path2inum(p))]

\* Mutation: the loop leaves out the last slot.
fs_readdir_short(p) ==
  IF ~Exists(p) THEN [ret |-> -ENOENT]
  ELSE IF ~S_ISDIR(path2inum(p)) THEN [ret |-> -ENOTDIR]
  ELSE LET ents == Dirs(path2inum(p))
           K    == {k \in Slots \ {NumDirent - 1} : ents[k].valid}
       IN  [ret    |-> 0,
            filled |-> {<<ents[k].name, inode2stat(ents[k].inode)>> : k \in K}]

\* The calls of filler, as a set: name and stat of every valid entry.
fs_readdir(p) ==
  IF ~Exists(p) THEN [ret |-> -ENOENT]
  ELSE IF ~S_ISDIR(path2inum(p)) THEN [ret |-> -ENOTDIR]
  ELSE LET ents == Dirs(path2inum(p))
           K    == {k \in Slots : ents[k].valid}
       IN  [ret    |-> 0,
            filled |-> {<<ents[k].name, inode2stat(ents[k].inode)>> : k \in K}]

\* The unsigned counters of struct statvfs wrap at Word.
fs_statfs ==
  LET f_blocks == DiskSize - 2
      used     == Cardinality(map \cap 2 .. NumBits - 1)
  IN  [f_blocks |-> f_blocks, f_bfree |-> (f_blocks - used) % Word]

-----------------------------------------------------------------------------
(***************************************************************************)
(* The ways a handler ends.                                                *)
(***************************************************************************)
\* It returns an error before it wrote anything.
Fail(e) == ret' = e /\ UNCHANGED <<map, disk, up>>

\* alloc_blk returned -ENOSPC, nobody tested it and assert(lba > 0) of
\* block_write ends the process.  m and d are on the disk by then.
Abort(m, d) == map' = m /\ disk' = d /\ up' = "down" /\ UNCHANGED ret

\* Every handler that may write, once its arguments are known.
Return(m, d, r) == map' = m /\ disk' = d /\ ret' = r /\ UNCHANGED up

-----------------------------------------------------------------------------
(***************************************************************************)
(* fs_init: the process starts on the image it finds, after a first mount  *)
(* and after an abort.  With a wrong magic number it exits at once.        *)
(***************************************************************************)
fs_init ==
  /\ up = "down"
  /\ disk[0] = Super
  /\ up' = "mounted"
  /\ UNCHANGED <<map, disk, ret>>

(***************************************************************************)
(* fs_create and fs_mkdir.                                                 *)
(***************************************************************************)
\* The checks before anything is allocated.
create_errno(p) ==
  IF Exists(p) THEN -EEXIST
  ELSE IF Last(p) \in LongNames THEN -EINVAL
  ELSE IF path2inum(Front(p)) < 0 THEN -ENOENT
  ELSE IF ~S_ISDIR(path2inum(Front(p))) THEN -ENOTDIR
  ELSE 0

FreeSlots(ents) == {k \in Slots : ~ents[k].valid}

\* Mutation: no break in the loop, so every free slot gets the entry.
add_entry_no_break(p, i, m, d) ==
  LET b == DirBlkOf(path2inum(Front(p)))
  IN  \/ /\ FreeSlots(d[b].ents) = {}
         /\ Return(m, d, -EINVAL)
      \/ /\ FreeSlots(d[b].ents) # {}
         /\ Return(m, [d EXCEPT ![b].ents =
                         [k \in Slots |-> IF @[k].valid THEN @[k] ELSE Entry(i, Last(p))]],
                   0)

\* The end of both: inode i, written already (disk d), is entered under
\* name Last(p) in the first free slot of its parent.  When there is none the
\* handler gives up and what it allocated (map m) stays allocated.
add_entry(p, i, m, d) ==
  LET b == DirBlkOf(path2inum(Front(p)))
  IN  \/ /\ FreeSlots(d[b].ents) = {}
         /\ Return(m, d, -EINVAL)
      \/ /\ FreeSlots(d[b].ents) # {}
         /\ LET k == Min(FreeSlots(d[b].ents))
            IN  Return(m, [d EXCEPT ![b].ents[k] = Entry(i, Last(p))], 0)

fs_create(p, perm, now) ==
  /\ up = "mounted"
  /\ \/ create_errno(p) # 0 /\ Fail(create_errno(p))
     \/ /\ create_errno(p) = 0
        /\ alloc_blk(map) < 0
        /\ Abort(map, disk)
     \/ /\ create_errno(p) = 0
        /\ alloc_blk(map) > 0
        /\ LET i == alloc_blk(map)
           IN  add_entry(p, i, bit_set(map, {i}),
                 [disk EXCEPT ![i] = NewInode("file", perm, now, 0, NoPtr)])

\* One block for the inode, one for its entries.  The entries are written
\* first, so with one block left the process ends with that block marked.
fs_mkdir(p, perm, now) ==
  LET i  == alloc_blk(map)
      m1 == IF i > 0 THEN bit_set(map, {i}) ELSE map
      b  == alloc_blk(m1)
  IN  /\ up = "mounted"
      /\ \/ create_errno(p) # 0 /\ Fail(create_errno(p))
         \/ create_errno(p) = 0 /\ b < 0 /\ Abort(m1, disk)
         \/ /\ create_errno(p) = 0
            /\ b > 0
            /\ add_entry(p, i, bit_set(m1, {b}),
                 [disk EXCEPT ![b] = EmptyDir,
                              ![i] = NewInode("dir", perm, now, BlockSize, b)])

(***************************************************************************)
(* fs_unlink and fs_rmdir.                                                 *)
(***************************************************************************)
\* The checks both begin with.
parent_errno(p) ==
  IF path2inum(Front(p)) < 0 THEN -ENOENT
  ELSE IF ~S_ISDIR(path2inum(Front(p))) THEN -ENOTDIR
  ELSE IF path2inum(p) < 0 THEN -ENOENT
  ELSE 0

unlink_errno(p) ==
  IF parent_errno(p) # 0 THEN parent_errno(p)
  ELSE IF S_ISDIR(path2inum(p)) THEN -EISDIR
  ELSE 0

\* Mutation: a directory with entries is not refused.
rmdir_errno_any(p) ==
  IF parent_errno(p) # 0 THEN parent_errno(p)
  ELSE IF ~S_ISDIR(path2inum(p)) THEN -ENOTDIR
  ELSE 0

rmdir_errno(p) ==
  IF parent_errno(p) # 0 THEN parent_errno(p)
  ELSE IF ~S_ISDIR(path2inum(p)) THEN -ENOTDIR
  ELSE IF FreeSlots(Dirs(path2inum(p))) # Slots THEN -ENOTEMPTY
  ELSE 0

\* Mutation: the parent keeps its mtime.
remove_no_mtime(p, B, now) ==
  LET i   == path2inum(p)
      par == path2inum(Front(p))
      b   == DirBlkOf(par)
      K   == {k \in Slots : Dirs(par)[k].valid /\ Dirs(par)[k].inode = i}
  IN  Return(free_blk(map, B \cup {i}),
             [disk EXCEPT ![b].ents[Min(K)] = EmptySlot], 0)

\* The end of both: the blocks B and the inode of p are freed, the entry is
\* found in the parent by its inode number, and the parent's mtime is set.
remove(p, B, now) ==
  LET i   == path2inum(p)
      par == path2inum(Front(p))
      b   == DirBlkOf(par)
      K   == {k \in Slots : Dirs(par)[k].valid /\ Dirs(par)[k].inode = i}
      d   == IF K = {} THEN disk ELSE [disk EXCEPT ![b].ents[Min(K)] = EmptySlot]
  IN  Return(free_blk(map, B \cup {i}), [d EXCEPT ![par].mtime = now], 0)

\* The blocks a file's size says it has.
FileBlocks(i) == {disk[i].ptrs[q] : q \in 0 .. nblocks(disk[i]) - 1}

\* Mutation: the number of blocks is rounded down.
fs_unlink_round_down(p, now) ==
  LET in == disk[path2inum(p)]
  IN  /\ up = "mounted"
      /\ \/ unlink_errno(p) # 0 /\ Fail(unlink_errno(p))
         \/ /\ unlink_errno(p) = 0
            /\ remove(p, {in.ptrs[q] : q \in 0 .. in.size \div BlockSize - 1}, now)

fs_unlink(p, now) ==
  /\ up = "mounted"
  /\ \/ unlink_errno(p) # 0 /\ Fail(unlink_errno(p))
     \/ unlink_errno(p) = 0 /\ remove(p, FileBlocks(path2inum(p)), now)

fs_rmdir(p, now) ==
  /\ up = "mounted"
  /\ \/ rmdir_errno(p) # 0 /\ Fail(rmdir_errno(p))
     \/ rmdir_errno(p) = 0 /\ remove(p, {DirBlkOf(path2inum(p))}, now)

(***************************************************************************)
(* fs_rename: within one directory, and never onto an existing name.       *)
(***************************************************************************)
\* Mutation: an existing destination is not refused.
rename_errno_no_eexist(src, dst) ==
  IF path2inum(src) = -ENOTDIR THEN -EINVAL
  ELSE IF path2inum(src) < 0 THEN -ENOENT
  ELSE IF src = <<>> \/ Len(src) # Len(dst) \/ Front(src) # Front(dst) THEN -EINVAL
  ELSE 0

\* Mutation: the directories are not compared.
rename_errno_any_dir(src, dst) ==
  IF path2inum(src) = -ENOTDIR THEN -EINVAL
  ELSE IF path2inum(src) < 0 THEN -ENOENT
  ELSE IF Exists(dst) THEN -EEXIST
  ELSE IF Len(src) # Len(dst) THEN -EINVAL
  ELSE 0

rename_errno(src, dst) ==
  IF path2inum(src) = -ENOTDIR THEN -EINVAL
  ELSE IF path2inum(src) < 0 THEN -ENOENT
  ELSE IF Exists(dst) THEN -EEXIST
  ELSE IF Len(src) # Len(dst) \/ Front(src) # Front(dst) THEN -EINVAL
  ELSE 0

\* Mutation: the NUL clears the inode number and leaves the valid bit.
SetName_keeps_valid(ents, k, n) ==
  [s \in Slots |->
     CASE s = k -> Entry(ents[k].inode, n)
       [] s = k + 1 /\ n \in LongNames /\ ents[s].valid -> Entry(0, ents[s].name)
       [] OTHER -> ents[s]]

\* strcpy of the new name into entry k.  The NUL of a name of 28 letters
\* lands on the first byte of the next entry, which clears its valid bit; for
\* the last entry it lands outside the array, on bytes not used again.
SetName(ents, k, n) ==
  [s \in Slots |->
     CASE s = k                           -> Entry(ents[k].inode, n)
       [] s = k + 1 /\ n \in LongNames    -> EmptySlot
       [] OTHER                           -> ents[s]]

fs_rename(src, dst) ==
  /\ up = "mounted"
  /\ \/ rename_errno(src, dst) # 0 /\ Fail(rename_errno(src, dst))
     \/ /\ rename_errno(src, dst) = 0
        /\ LET par == path2inum(Front(src))
               b   == DirBlkOf(par)
               k   == Min(Hits(par, Last(src)))
           IN  Return(map,
                 [disk EXCEPT ![b].ents = SetName(Dirs(par), k, Last(dst))], 0)

(***************************************************************************)
(* fs_chmod, fs_utime and fs_truncate.                                     *)
(***************************************************************************)
\* Mutation: the new mode replaces the S_IFMT bits too.
fs_chmod_blind(p, perm) ==
  /\ up = "mounted"
  /\ \/ ~Exists(p) /\ Fail(-ENOENT)
     \/ Exists(p) /\ Return(map, [disk EXCEPT ![path2inum(p)].perm = perm,
                                              ![path2inum(p)].type = "file"], 0)

fs_chmod(p, perm) ==
  /\ up = "mounted"
  /\ \/ ~Exists(p) /\ Fail(-ENOENT)
     \/ Exists(p) /\ Return(map, [disk EXCEPT ![path2inum(p)].perm = perm], 0)

\* t is modtime, or the current time when ut is NULL.
fs_utime(p, t) ==
  /\ up = "mounted"
  /\ \/ file_errno(p) # 0 /\ Fail(file_errno(p))
     \/ /\ file_errno(p) = 0
        /\ Return(map, [disk EXCEPT ![path2inum(p)].mtime = t], 0)

\* Mutation: the size is not reset.
fs_truncate_keeps_size(p, len) ==
  /\ up = "mounted"
  /\ \/ len # 0 /\ Fail(-EINVAL)
     \/ len = 0 /\ file_errno(p) # 0 /\ Fail(file_errno(p))
     \/ /\ len = 0
        /\ file_errno(p) = 0
        /\ Return(free_blk(map, FileBlocks(path2inum(p))), disk, 0)

\* Mutation: the size is reset first, so the loop over the blocks frees none.
fs_truncate_size_first(p, len) ==
  /\ up = "mounted"
  /\ \/ len # 0 /\ Fail(-EINVAL)
     \/ len = 0 /\ file_errno(p) # 0 /\ Fail(file_errno(p))
     \/ /\ len = 0
        /\ file_errno(p) = 0
        /\ Return(map, [disk EXCEPT ![path2inum(p)].size = 0], 0)

\* Only to length 0.  The pointers stay in the inode, and mtime stays too.
fs_truncate(p, len) ==
  /\ up = "mounted"
  /\ \/ len # 0 /\ Fail(-EINVAL)
     \/ len = 0 /\ file_errno(p) # 0 /\ Fail(file_errno(p))
     \/ /\ len = 0
        /\ file_errno(p) = 0
        /\ LET i == path2inum(p)
           IN  Return(free_blk(map, FileBlocks(i)),
                      [disk EXCEPT ![i].size = 0], 0)

(***************************************************************************)
(* fs_write.                                                               *)
(***************************************************************************)
write_allowed(p, off, len) ==
  file_errno(p) = 0 /\ off <= disk[path2inum(p)].size /\ off + len <= MaxFile

\* What a refused write returns.  One that starts past the end of the file is
\* answered with 0 bytes, not with an error.
write_answer(p, off, len) ==
  IF file_errno(p) # 0 THEN file_errno(p)
  ELSE IF off > disk[path2inum(p)].size THEN 0
  ELSE -ENOSPC

\* The indexes of the block pointers that bytes off .. off + len - 1 need.
Touched(off, len) ==
  IF len = 0 THEN {} ELSE off \div BlockSize .. (off + len - 1) \div BlockSize

\* Mutation: the bits of earlier calls are not written back.
AllocEach_same(Q) ==
  {g \in [Q -> FreeBits(map)] : \A q \in Q : g[q] = alloc_blk(map)}

\* The blocks that the loop allocates for the pointers Q: the call for q sees
\* the bits that the calls for smaller indexes have set.
AllocEach(Q) ==
  {g \in [Q -> FreeBits(map)] :
     \A q \in Q : g[q] = alloc_blk(bit_set(map, {g[r] : r \in {x \in Q : x < q}}))}

\* The test in.ptrs[block_num] <= 0 on an unsigned value never holds for
\* -ENOSPC, so a full map ends in an abort: every free block is marked and
\* written by then, and the inode is not.
fs_write(p, off, len, now) ==
  LET i   == path2inum(p)
      in  == disk[i]
      New == {q \in Touched(off, len) : q >= nblocks(in)}
  IN  /\ up = "mounted"
      /\ \/ ~write_allowed(p, off, len) /\ Fail(write_answer(p, off, len))
         \/ /\ write_allowed(p, off, len)
            /\ Cardinality(New) > Cardinality(FreeBits(map))
            /\ Abort(bit_set(map, FreeBits(map)),
                     [b \in Blk |-> IF b \in FreeBits(map) THEN Data ELSE disk[b]])
         \/ /\ write_allowed(p, off, len)
            /\ \E g \in AllocEach(New) :
                 LET ptrs == [q \in PtrIdx |-> IF q \in New THEN g[q] ELSE in.ptrs[q]]
                     B    == {ptrs[q] : q \in Touched(off, len)}
                     node == [in EXCEPT !.ptrs  = ptrs,
                                        !.size  = IF off + len > @ THEN off + len ELSE @,
                                        !.mtime = now]
                 IN  Return(bit_set(map, {g[q] : q \in New}),
                            [b \in Blk |-> IF b = i THEN node
                                           ELSE IF b \in B THEN Data
                                           ELSE disk[b]],
                            len)

-----------------------------------------------------------------------------
(***************************************************************************)
(* The kernel refuses to remove the root itself; the other handlers have   *)
(* an answer for it.                                                       *)
(***************************************************************************)
Next ==
  \/ fs_init
  \/ \E p \in Paths, perm \in Perms, now \in Times : fs_create(p, perm, now)
  \/ \E p \in Paths, perm \in Perms, now \in Times : fs_mkdir(p, perm, now)
  \/ \E p \in Paths \ {<<>>}, now \in Times : fs_unlink(p, now)
  \/ \E p \in Paths \ {<<>>}, now \in Times : fs_rmdir(p, now)
  \/ \E src, dst \in Paths : fs_rename(src, dst)
  \/ \E p \in Paths, perm \in Perms : fs_chmod(p, perm)
  \/ \E p \in Paths, t \in Times : fs_utime(p, t)
  \/ \E p \in Paths, len \in {0} \cup Lengths : fs_truncate(p, len)
  \/ \E p \in Paths, off \in Offsets, len \in Lengths, now \in Times :
       fs_write(p, off, len, now)

Spec == Init /\ [][Next]_vars
=============================================================================
