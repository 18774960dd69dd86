-------------------------- MODULE FsAtomic_proofs ---------------------------
(***************************************************************************)
(* FsSteps implements Fs5600, for every value of the constants: a handler  *)
(* that has taken its last step, block write by block write and with the   *)
(* copies of inodes it made at the beginning, leaves the image that the    *)
(* atomic handler leaves.                                                  *)
(* And callers see all of its effect appear in one of its block writes.    *)
(***************************************************************************)
EXTENDS FsCrash_proofs, FiniteSetTheorems

\* What holds of walkable images is used of sound ones.
USE SoundWalkable

-----------------------------------------------------------------------------
(***************************************************************************)
(* What the handler that runs has done so far to the image (m0, d0) it     *)
(* found: the image is (m, d) now, its local variables are l and the       *)
(* request is r.                                                           *)
(***************************************************************************)
\* The map after a call of alloc_blk that returned b.
Taken(m, b) == IF b > 0 THEN bit_set(m, {b}) ELSE m

\* fs_create and fs_mkdir: the maps after their calls of alloc_blk, the disks
\* after they have written the blocks they were given.
Map1(m0)    == Taken(m0, alloc_blk(m0))
Map2(r, m0) == IF r[1] = "mkdir" THEN Taken(Map1(m0), alloc_blk(Map1(m0))) ELSE Map1(m0)

Disk1(l, r, d0) == IF r[1] = "mkdir" THEN [d0 EXCEPT ![l.node.ptrs[0]] = EmptyDir] ELSE d0
Disk2(l, r, d0) == [Disk1(l, r, d0) EXCEPT ![l.i] = l.node]

MakingAt(l, r, m, d, m0, d0) ==
  LET b == l.node.ptrs[0]
      e == d0[l.par].ptrs[0]
      K == FreeSlots(Disk2(l, r, d0)[e].ents)
  IN  /\ l.pnode = d0[l.par]
      /\ l.node = IF r[1] = "mkdir" THEN NewInode("dir", r[3], r[4], BlockSize, b)
                  ELSE NewInode("file", r[3], r[4], 0, NoPtr)
      /\ l.pc # "alloc" => l.i = alloc_blk(m0)
      /\ l.pc \in {"entry", "parent"} => l.i > 0
      /\ r[1] = "mkdir" =>
           /\ l.pc \notin {"alloc", "allocdir"} => b = alloc_blk(Map1(m0))
           /\ l.pc \in {"inode", "entry", "parent"} => b > 0
      /\ l.pc = "alloc"    => m = m0 /\ d = d0
      /\ l.pc = "allocdir" => m = Map1(m0) /\ d = d0
      /\ l.pc = "dirs"     => m = Map2(r, m0) /\ d = d0
      /\ l.pc = "inode"    => m = Map2(r, m0) /\ d = Disk1(l, r, d0)
      /\ l.pc = "entry"    => m = Map2(r, m0) /\ d = Disk2(l, r, d0)
      /\ l.pc = "parent"   =>
           /\ m = Map2(r, m0) /\ K # {}
           /\ d = [Disk2(l, r, d0) EXCEPT ![e].ents[Min(K)] = Entry(l.i, Last(r[2]))]

\* fs_unlink, fs_rmdir and fs_truncate: first the map, then the entry.
FirstPtrs(in, n) == {in.ptrs[q] : q \in 0 .. n - 1}

EntryGone(d, b, i) ==
  LET K == {k \in Slots : d[b].ents[k].valid /\ d[b].ents[k].inode = i}
  IN  IF K = {} THEN d ELSE [d EXCEPT ![b].ents[Min(K)] = EmptySlot]

RemovalAt(l, r, m, d, m0, d0) ==
  LET N == IF r[1] = "rmdir" THEN 1 ELSE nblocks(d0[l.i])
  IN  /\ l.node = d0[l.i]
      /\ r[1] # "truncate" => l.pnode = d0[l.par]
      /\ m = IF l.pc = "free" THEN m0 \ FirstPtrs(d0[l.i], l.q)
             ELSE m0 \ (FirstPtrs(d0[l.i], N) \cup {l.i})
      /\ d = IF l.pc = "stamp" THEN EntryGone(d0, d0[l.par].ptrs[0], l.i) ELSE d0

\* fs_write: the blocks for the pointers from n up to q - 1 are allocated and
\* written; what the file had is data already.
PtrsFrom(in, n, q) == {in.ptrs[x] : x \in n .. q - 1}

WriteAt(l, r, m, d, m0, d0) ==
  LET in == d0[l.i]
      N  == nblocks(in)
      M(q) == bit_set(m0, PtrsFrom(l.node, N, q))
  IN  /\ d[l.i] = in
      /\ l.node = [in EXCEPT !.ptrs = l.node.ptrs]
      /\ \A x \in 0 .. N - 1 : d0[in.ptrs[x]] = Data
      /\ \A b \in Blk : d[b] = IF b \in PtrsFrom(l.node, N, l.q) THEN Data ELSE d0[b]
      /\ \A x \in N .. l.q - 1 :
           /\ l.node.ptrs[x] \in FreeBits(m0)
           /\ l.node.ptrs[x] = alloc_blk(M(x))
           /\ x * BlockSize < r[3] + l.nread
      /\ l.pc = "loop" => m = M(l.q)
      /\ l.pc = "data" =>
           /\ l.node.ptrs[l.q] = alloc_blk(M(l.q))
           /\ m = Taken(M(l.q), l.node.ptrs[l.q])

\* What the checks and lookups at the beginning said of that image.
MakingOf(r, par) ==
  F!create_errno(r[2]) = 0 /\ par = F!path2inum(Front(r[2]))

RemovalOf(r, i, par) ==
  /\ r[1] = "unlink"   => F!unlink_errno(r[2]) = 0
  /\ r[1] = "rmdir"    => F!rmdir_errno(r[2]) = 0
  /\ r[1] = "truncate" => r[3] = 0 /\ F!file_errno(r[2]) = 0
  /\ i = F!path2inum(r[2])
  /\ r[1] # "truncate" => par = F!path2inum(Front(r[2]))

WriteOf(r, i) == F!write_allowed(r[2], r[3], r[4]) /\ i = F!path2inum(r[2])

Past ==
  op # Idle =>
    /\ up = "mounted"
    /\ req[1] \in Making =>
         MakingOf(req, op.par) /\ MakingAt(op, req, map, disk, map0, disk0)
    /\ req[1] \in Removing =>
         RemovalOf(req, op.i, op.par) /\ RemovalAt(op, req, map, disk, map0, disk0)
    /\ req[1] = "write" =>
         WriteOf(req, op.i) /\ WriteAt(op, req, map, disk, map0, disk0)

-----------------------------------------------------------------------------
(***************************************************************************)
(* The operators of the instance F.                                        *)
(***************************************************************************)
\* Those that read no variable are the same.
LEMMA SameConstants ==
  /\ F!Slots = Slots /\ F!PtrIdx = PtrIdx /\ F!Blk = Blk /\ F!RootInum = RootInum
  /\ F!MaxFile = MaxFile /\ F!Data = Data /\ F!EmptySlot = EmptySlot /\ F!EmptyDir = EmptyDir
  /\ F!ENOENT = ENOENT /\ F!EEXIST = EEXIST /\ F!ENOTDIR = ENOTDIR /\ F!EISDIR = EISDIR
  /\ F!EINVAL = EINVAL /\ F!ENOSPC = ENOSPC /\ F!ENOTEMPTY = ENOTEMPTY
BY DEF F!Slots, Slots, F!PtrIdx, PtrIdx, F!Blk, Blk, F!RootInum, RootInum, F!MaxFile, MaxFile,
       F!Data, Data, F!EmptySlot, EmptySlot, F!EmptyDir, EmptyDir, F!ENOENT, ENOENT,
       F!EEXIST, EEXIST, F!ENOTDIR, ENOTDIR, F!EISDIR, EISDIR, F!EINVAL, EINVAL,
       F!ENOSPC, ENOSPC, F!ENOTEMPTY, ENOTEMPTY

LEMMA SameOperators ==
  /\ \A S : F!Min(S) = Min(S)
  /\ \A s : F!Last(s) = Last(s) /\ F!Front(s) = Front(s)
  /\ \A e : F!FreeSlots(e) = FreeSlots(e)
  /\ \A i, n : F!Entry(i, n) = Entry(i, n)
  /\ \A in : F!nblocks(in) = nblocks(in)
  /\ \A m : F!FreeBits(m) = FreeBits(m) /\ F!alloc_blk(m) = alloc_blk(m)
  /\ \A off, len : F!Touched(off, len) = Touched(off, len)
<1>1. \A S : F!Min(S) = Min(S)
  BY DEF F!Min, Min
<1>2. \A s : F!Last(s) = Last(s) /\ F!Front(s) = Front(s)
  BY DEF F!Last, Last, F!Front, Front
<1>3. \A e : F!FreeSlots(e) = FreeSlots(e)
  BY SameConstants DEF F!FreeSlots, FreeSlots
<1>4. \A i, n : F!Entry(i, n) = Entry(i, n)
  BY DEF F!Entry, Entry
<1>5. \A in : F!nblocks(in) = nblocks(in)
  BY DEF F!nblocks, nblocks, F!DIV_ROUND_UP, DIV_ROUND_UP
<1>6. \A m : F!FreeBits(m) = FreeBits(m)
  BY DEF F!FreeBits, FreeBits
<1>7. \A m : F!alloc_blk(m) = alloc_blk(m)
  BY <1>1, <1>6, SameConstants DEF F!alloc_blk, alloc_blk
<1>8. \A off, len : F!Touched(off, len) = Touched(off, len)
  BY DEF F!Touched, Touched
<1>. QED BY <1>1, <1>2, <1>3, <1>4, <1>5, <1>6, <1>7, <1>8

LEMMA SameNewInode ==
  \A type, perm, now, size, b :
     F!NewInode(type, perm, now, size, b) = NewInode(type, perm, now, size, b)
BY SameConstants DEF F!NewInode, NewInode

LEMMA SameSetName ==
  \A ents, k, n : F!SetName(ents, k, n) = SetName(ents, k, n)
BY SameConstants, SameOperators DEF F!SetName, SetName

\* Between two requests F sees the image as it is.
LEMMA SamePathsNow ==
  ASSUME disk0 = disk
  PROVE  /\ \A p : F!path2inum(p) = path2inum(p)
         /\ \A i, n : F!Hits(i, n) = Hits(i, n)
         /\ \A i : /\ F!DirBlkOf(i) = DirBlkOf(i) /\ F!Dirs(i) = Dirs(i)
                   /\ F!S_ISDIR(i) = S_ISDIR(i)
<1>1. \A i : /\ F!DirBlkOf(i) = DirBlkOf(i) /\ F!Dirs(i) = Dirs(i)
             /\ F!S_ISDIR(i) = S_ISDIR(i)
  BY DEF F!Dirs, Dirs, F!DirBlkOf, DirBlkOf, F!S_ISDIR, S_ISDIR
<1>2. \A i, n : F!Hits(i, n) = Hits(i, n)
  BY <1>1, SameConstants DEF F!Hits, Hits
<1>3. \A p, j, c : F!walk(p, j, c) = walk(p, j, c)
  <2> TAKE p, j, c
  <2>1. F!Hits(c, p[j]) = Hits(c, p[j]) /\ F!Min(Hits(c, p[j])) = Min(Hits(c, p[j]))
    BY <1>2, SameOperators
  <2>2. F!ENOTDIR = ENOTDIR /\ F!ENOENT = ENOENT
    BY SameConstants
  <2>. QED BY <1>1, <2>1, <2>2 DEF F!walk, walk
<1>4. \A p : F!path2inum(p) = path2inum(p)
  BY <1>3 DEF F!path2inum, path2inum, F!RootInum, RootInum
<1>. QED BY <1>1, <1>2, <1>4

LEMMA SameChecksNow ==
  ASSUME disk0 = disk
  PROVE  /\ \A p : /\ F!Exists(p) = Exists(p)
                   /\ F!create_errno(p) = create_errno(p)
                   /\ F!unlink_errno(p) = unlink_errno(p)
                   /\ F!rmdir_errno(p) = rmdir_errno(p)
                   /\ F!file_errno(p) = file_errno(p)
         /\ \A src, dst : F!rename_errno(src, dst) = rename_errno(src, dst)
         /\ \A p, off, len : /\ F!write_allowed(p, off, len) = write_allowed(p, off, len)
                             /\ F!write_answer(p, off, len) = write_answer(p, off, len)
<1>1. \A p : F!path2inum(p) = path2inum(p)
  BY SamePathsNow
<1>2. \A i : F!S_ISDIR(i) = S_ISDIR(i) /\ F!Dirs(i) = Dirs(i)
  BY SamePathsNow
<1>3. \A p : F!Exists(p) = Exists(p)
  BY <1>1 DEF F!Exists, Exists
<1>4. \A p : F!create_errno(p) = create_errno(p)
  BY <1>1, <1>2, <1>3, SameConstants, SameOperators DEF F!create_errno, create_errno
<1>5. \A p : F!parent_errno(p) = parent_errno(p)
  BY <1>1, <1>2, SameConstants, SameOperators DEF F!parent_errno, parent_errno
<1>6. \A p : F!unlink_errno(p) = unlink_errno(p)
  BY <1>1, <1>2, <1>5, SameConstants DEF F!unlink_errno, unlink_errno
<1>7. \A p : F!rmdir_errno(p) = rmdir_errno(p)
  BY <1>1, <1>2, <1>5, SameConstants, SameOperators DEF F!rmdir_errno, rmdir_errno
<1>8. \A p : F!path_errno(p) = path_errno(p)
  BY <1>1, <1>3, SameConstants DEF F!path_errno, path_errno
<1>9. \A p : F!file_errno(p) = file_errno(p)
  BY <1>1, <1>2, <1>8, SameConstants DEF F!file_errno, file_errno
<1>10. \A src, dst : F!rename_errno(src, dst) = rename_errno(src, dst)
  BY <1>1, <1>3, SameConstants, SameOperators DEF F!rename_errno, rename_errno
<1>11. \A p, off, len : F!write_allowed(p, off, len) = write_allowed(p, off, len)
  BY <1>1, <1>9, SameConstants DEF F!write_allowed, write_allowed
<1>12. \A p, off, len : F!write_answer(p, off, len) = write_answer(p, off, len)
  BY <1>1, <1>9, SameConstants DEF F!write_answer, write_answer
<1>. QED BY <1>3, <1>4, <1>6, <1>7, <1>9, <1>10, <1>11, <1>12

\* While a handler runs F sees the image the handler found.
LEMMA SamePathsThen ==
  ASSUME disk0' = disk0
  PROVE  \A p : F!path2inum(p)' = F!path2inum(p)
BY DEF F!path2inum, F!walk, F!Hits, F!Dirs, F!DirBlkOf, F!S_ISDIR

LEMMA SameChecksThen ==
  ASSUME disk0' = disk0
  PROVE  /\ \A p : /\ F!create_errno(p)' = F!create_errno(p)
                   /\ F!unlink_errno(p)' = F!unlink_errno(p)
                   /\ F!rmdir_errno(p)' = F!rmdir_errno(p)
                   /\ F!file_errno(p)' = F!file_errno(p)
         /\ \A p, off, len : F!write_allowed(p, off, len)' = F!write_allowed(p, off, len)
<1>1. \A p : F!path2inum(p)' = F!path2inum(p)
  BY SamePathsThen
<1>2. \A p : F!create_errno(p)' = F!create_errno(p)
  BY <1>1 DEF F!create_errno, F!Exists, F!S_ISDIR
<1>3. \A p : F!parent_errno(p)' = F!parent_errno(p)
  BY <1>1 DEF F!parent_errno, F!S_ISDIR
<1>4. \A p : F!unlink_errno(p)' = F!unlink_errno(p)
  BY <1>1, <1>3 DEF F!unlink_errno, F!S_ISDIR
<1>5. \A p : F!rmdir_errno(p)' = F!rmdir_errno(p)
  BY <1>1, <1>3 DEF F!rmdir_errno, F!S_ISDIR, F!Dirs, F!DirBlkOf, F!FreeSlots
<1>6. \A p : F!file_errno(p)' = F!file_errno(p)
  BY <1>1 DEF F!file_errno, F!path_errno, F!Exists, F!S_ISDIR
<1>7. \A p, off, len : F!write_allowed(p, off, len)' = F!write_allowed(p, off, len)
  BY <1>1, <1>6 DEF F!write_allowed
<1>. QED BY <1>2, <1>4, <1>5, <1>6, <1>7

LEMMA OfStays ==
  ASSUME disk0' = disk0
  PROVE  /\ \A r, par : MakingOf(r, par)' = MakingOf(r, par)
         /\ \A r, i, par : RemovalOf(r, i, par)' = RemovalOf(r, i, par)
         /\ \A r, i : WriteOf(r, i)' = WriteOf(r, i)
<1>1. \A r, par : MakingOf(r, par)' = MakingOf(r, par)
  BY SamePathsThen, SameChecksThen DEF MakingOf
<1>2. \A r, i, par : RemovalOf(r, i, par)' = RemovalOf(r, i, par)
  BY SamePathsThen, SameChecksThen DEF RemovalOf
<1>3. \A r, i : WriteOf(r, i)' = WriteOf(r, i)
  BY SamePathsThen, SameChecksThen DEF WriteOf
<1>. QED BY <1>1, <1>2, <1>3

-----------------------------------------------------------------------------
(***************************************************************************)
(* A step of FsSteps is either one that Fs5600 does not see, or the whole  *)
(* request.                                                                *)
(***************************************************************************)
Unseen == Past' /\ UNCHANGED <<map0, disk0, ret, up>>
Whole  == op' = Idle /\ Atomic(req')

LEMMA CallFields ==
  ASSUME NEW s, NEW i, NEW in, NEW par
  PROVE  LET n == Call(s, i, in, par)
         IN  /\ n.pc = s /\ n.i = i /\ n.node = in /\ n.par = par /\ n.pnode = disk[par]
             /\ n.q = 0 /\ n.block_offset = 0 /\ n.nread = 0
BY DEF Call

\* Where a request leaves its handler.
LEMMA MakingPast ==
  ASSUME NEW l, op' = l, NEW r, req' = r, r[1] \in Making, up' = "mounted",
         MakingOf(r, l.par)', MakingAt(l, r, map', disk', map0', disk0')
  PROVE  Past'
<1>1. r[1] \notin Removing /\ r[1] # "write"
  BY DEF Making, Removing
<1>2. MakingOf(req, op.par)'
  OBVIOUS
<1>3. MakingAt(op, req, map, disk, map0, disk0)'
  BY DEF MakingAt
<1>. QED BY <1>1, <1>2, <1>3 DEF Past

LEMMA RemovalPast ==
  ASSUME NEW l, op' = l, NEW r, req' = r, r[1] \in Removing, up' = "mounted",
         RemovalOf(r, l.i, l.par)', RemovalAt(l, r, map', disk', map0', disk0')
  PROVE  Past'
<1>1. r[1] \notin Making /\ r[1] # "write"
  BY DEF Making, Removing
<1>2. RemovalOf(req, op.i, op.par)'
  OBVIOUS
<1>3. RemovalAt(op, req, map, disk, map0, disk0)'
  BY DEF RemovalAt
<1>. QED BY <1>1, <1>2, <1>3 DEF Past

LEMMA WritePast ==
  ASSUME NEW l, op' = l, NEW r, req' = r, r[1] = "write", up' = "mounted",
         WriteOf(r, l.i)', WriteAt(l, r, map', disk', map0', disk0')
  PROVE  Past'
<1>1. r[1] \notin Making /\ r[1] \notin Removing
  BY DEF Making, Removing
<1>2. WriteOf(req, op.i)'
  OBVIOUS
<1>3. WriteAt(op, req, map, disk, map0, disk0)'
  BY DEF WriteAt
<1>. QED BY <1>1, <1>2, <1>3 DEF Past

\* A handler that goes on.
LEMMA MakingGoes ==
  ASSUME Past, op # Idle, req[1] \in Making, NEW l, Go(l), l.par = op.par,
         MakingAt(l, req, map', disk', map0, disk0)
  PROVE  Unseen
<1>1. /\ op' = l /\ req' = req /\ up' = up /\ ret' = ret /\ map0' = map0 /\ disk0' = disk0
      /\ up = "mounted"
  BY DEF Go, Past
<1>2. MakingOf(req, op.par)
  BY DEF Past
<1>3. MakingOf(req, l.par)'
  BY <1>1, <1>2, OfStays
<1>4. Past'
  BY <1>1, <1>3, MakingPast
<1>. QED BY <1>1, <1>4 DEF Unseen

LEMMA RemovalGoes ==
  ASSUME Past, op # Idle, req[1] \in Removing, NEW l, Go(l), l.i = op.i, l.par = op.par,
         RemovalAt(l, req, map', disk', map0, disk0)
  PROVE  Unseen
<1>1. /\ op' = l /\ req' = req /\ up' = up /\ ret' = ret /\ map0' = map0 /\ disk0' = disk0
      /\ up = "mounted"
  BY DEF Go, Past
<1>2. RemovalOf(req, op.i, op.par)
  BY DEF Past
<1>3. RemovalOf(req, l.i, l.par)'
  BY <1>1, <1>2, OfStays
<1>4. Past'
  BY <1>1, <1>3, RemovalPast
<1>. QED BY <1>1, <1>4 DEF Unseen

LEMMA WriteGoes ==
  ASSUME Past, op # Idle, req[1] = "write", NEW l, Go(l), l.i = op.i,
         WriteAt(l, req, map', disk', map0, disk0)
  PROVE  Unseen
<1>1. /\ op' = l /\ req' = req /\ up' = up /\ ret' = ret /\ map0' = map0 /\ disk0' = disk0
      /\ up = "mounted"
  BY DEF Go, Past
<1>2. WriteOf(req, op.i)
  BY DEF Past
<1>3. WriteOf(req, l.i)'
  BY <1>1, <1>2, OfStays
<1>4. Past'
  BY <1>1, <1>3, WritePast
<1>. QED BY <1>1, <1>4 DEF Unseen

\* A handler that ends, as F sees it.
LEMMA EndSeen ==
  ASSUME NEW e, End(e)
  PROVE  op' = Idle /\ F!Return(map', disk', e)
BY DEF End, F!Return

LEMMA RefuseSeen ==
  ASSUME StepInv, op = Idle, NEW e, Refuse(e)
  PROVE  op' = Idle /\ F!Fail(e)
BY DEF Refuse, End, F!Fail, StepInv, Resting

LEMMA AssertSeen ==
  ASSUME NEW lba, AssertFails(lba)
  PROVE  op' = Idle /\ req' = req /\ F!Abort(map, disk)
BY DEF AssertFails, F!Abort

LEMMA AtomicCases ==
  ASSUME NEW r
  PROVE  /\ r[1] = "create" => Atomic(r) = F!fs_create(r[2], r[3], r[4])
         /\ r[1] = "mkdir" => Atomic(r) = F!fs_mkdir(r[2], r[3], r[4])
         /\ r[1] = "unlink" => Atomic(r) = (\E now \in Times : F!fs_unlink(r[2], now))
         /\ r[1] = "rmdir" => Atomic(r) = (\E now \in Times : F!fs_rmdir(r[2], now))
         /\ r[1] = "rename" => Atomic(r) = F!fs_rename(r[2], r[3])
         /\ r[1] = "chmod" => Atomic(r) = F!fs_chmod(r[2], r[3])
         /\ r[1] = "utime" => Atomic(r) = F!fs_utime(r[2], r[3])
         /\ r[1] = "truncate" => Atomic(r) = F!fs_truncate(r[2], r[3])
         /\ r[1] = "write" => Atomic(r) = (\E now \in Times : F!fs_write(r[2], r[3], r[4], now))
BY DEF Atomic

-----------------------------------------------------------------------------
(***************************************************************************)
(* The handlers that are atomic in FsSteps too.                            *)
(***************************************************************************)
LEMMA Idling ==
  ASSUME StepInv, NEW r, Take(r)
  PROVE  op = Idle /\ map0 = map /\ disk0 = disk /\ up = "mounted" /\ req' = r
BY DEF Take, StepInv, Resting

LEMMA RenameSeen ==
  ASSUME StepInv, NEW src, NEW dst, rename(src, dst)
  PROVE  Whole
<1> DEFINE r == <<"rename", src, dst>>
<1>1. /\ op = Idle /\ map0 = map /\ disk0 = disk /\ up = "mounted" /\ req' = r
      /\ r[1] = "rename" /\ r[2] = src /\ r[3] = dst
      /\ op' = op /\ map0' = map' /\ disk0' = disk' /\ fs_rename(src, dst)
  BY Idling DEF rename, Sync
<1>2. F!rename_errno(src, dst) = rename_errno(src, dst)
  BY <1>1, SameChecksNow
<1>3. ASSUME rename_errno(src, dst) # 0, Fail(rename_errno(src, dst))
      PROVE  F!fs_rename(src, dst)
  BY <1>1, <1>2, <1>3 DEF F!fs_rename, F!Fail, Fail
<1>4. ASSUME rename_errno(src, dst) = 0
      PROVE  F!fs_rename(src, dst)
  <2> DEFINE par == path2inum(Front(src))
             b   == DirBlkOf(par)
             k   == Min(Hits(par, Last(src)))
             e   == [disk EXCEPT ![b].ents = SetName(Dirs(par), k, Last(dst))]
  <2>1. Return(map, e, 0)
    BY <1>1, <1>4 DEF fs_rename
  <2>2. /\ F!path2inum(F!Front(src)) = par /\ F!DirBlkOf(par) = b
        /\ F!Min(F!Hits(par, F!Last(src))) = k
        /\ F!SetName(F!Dirs(par), k, F!Last(dst)) = SetName(Dirs(par), k, Last(dst))
    BY <1>1, SamePathsNow, SameOperators, SameSetName
  <2> HIDE DEF par, b, k
  <2>3. F!Return(map, e, 0)
    BY <1>1, <2>1 DEF F!Return, Return
  <2>. QED BY <1>1, <1>2, <1>4, <2>2, <2>3 DEF F!fs_rename
<1>5. F!fs_rename(src, dst)
  BY <1>1, <1>3, <1>4 DEF fs_rename
<1>. QED BY <1>1, <1>5, AtomicCases DEF Whole

LEMMA ChmodSeen ==
  ASSUME StepInv, NEW p, NEW perm, chmod(p, perm)
  PROVE  Whole
<1> DEFINE r == <<"chmod", p, perm>>
<1>1. /\ op = Idle /\ map0 = map /\ disk0 = disk /\ up = "mounted" /\ req' = r
      /\ r[1] = "chmod" /\ r[2] = p /\ r[3] = perm
      /\ op' = op /\ map0' = map' /\ disk0' = disk' /\ fs_chmod(p, perm)
  BY Idling DEF chmod, Sync
<1>2. F!Exists(p) = Exists(p) /\ F!path2inum(p) = path2inum(p) /\ F!ENOENT = ENOENT
  BY <1>1, SameChecksNow, SamePathsNow, SameConstants
<1>3. F!fs_chmod(p, perm)
  BY <1>1, <1>2 DEF F!fs_chmod, fs_chmod, F!Fail, Fail, F!Return, Return
<1>. QED BY <1>1, <1>3, AtomicCases DEF Whole

LEMMA UtimeSeen ==
  ASSUME StepInv, NEW p, NEW t, utime(p, t)
  PROVE  Whole
<1> DEFINE r == <<"utime", p, t>>
<1>1. /\ op = Idle /\ map0 = map /\ disk0 = disk /\ up = "mounted" /\ req' = r
      /\ r[1] = "utime" /\ r[2] = p /\ r[3] = t
      /\ op' = op /\ map0' = map' /\ disk0' = disk' /\ fs_utime(p, t)
  BY Idling DEF utime, Sync
<1>2. F!file_errno(p) = file_errno(p) /\ F!path2inum(p) = path2inum(p)
  BY <1>1, SameChecksNow, SamePathsNow
<1>3. F!fs_utime(p, t)
  BY <1>1, <1>2 DEF F!fs_utime, fs_utime, F!Fail, Fail, F!Return, Return
<1>. QED BY <1>1, <1>3, AtomicCases DEF Whole

\* fs_init finds the image that F sees, since no handler runs.
LEMMA InitSeen ==
  ASSUME StepInv, Past, init
  PROVE  Past' /\ F!fs_init
<1>1. up = "down" /\ op = Idle
  BY DEF init, fs_init, Past
<1>2. op' = Idle /\ map0' = map' /\ disk0' = disk' /\ map0 = map /\ disk0 = disk
  BY <1>1 DEF init, Sync, StepInv, Resting
<1>3. Past'
  BY <1>2 DEF Past, Idle
<1>4. F!fs_init
  BY <1>2 DEF init, fs_init, F!fs_init, F!Super, Super
<1>. QED BY <1>3, <1>4

-----------------------------------------------------------------------------
(***************************************************************************)
(* fs_create and fs_mkdir.                                                 *)
(***************************************************************************)
LEMMA MakingSeen ==
  ASSUME StepInv, NEW h \in Making, NEW p, NEW perm, NEW now,
         Take(<<h, p, perm, now>>), create_errno(p) = 0,
         NEW node, node = IF h = "mkdir" THEN NewInode("dir", perm, now, BlockSize, NoPtr)
                          ELSE NewInode("file", perm, now, 0, NoPtr),
         Begin(Call("alloc", 0, node, path2inum(Front(p))))
  PROVE  Unseen
<1> DEFINE r == <<h, p, perm, now>>
<1>1. /\ map0 = map /\ disk0 = disk /\ up = "mounted" /\ req' = r
      /\ r[1] = h /\ r[2] = p /\ r[3] = perm /\ r[4] = now
  BY Idling
<1>2. PICK par, c : par = path2inum(Front(p)) /\ c = Call("alloc", 0, node, par)
  OBVIOUS
<1>3. /\ op' = c /\ map' = map /\ disk' = disk /\ ret' = ret /\ up' = up
      /\ map0' = map0 /\ disk0' = disk0
  BY <1>2 DEF Begin
<1>4. c.pc = "alloc" /\ c.node = node /\ c.par = par /\ c.pnode = disk[par]
  BY <1>2, CallFields
<1>5. node.ptrs[0] = NoPtr
  BY SizesAssumption DEF NewInode, PtrIdx
<1> HIDE DEF r
<1>6. MakingAt(c, r, map, disk, map, disk)
  BY <1>1, <1>4, <1>5 DEF MakingAt
<1>7. MakingOf(r, par)
  BY <1>1, <1>2, SamePathsNow, SameChecksNow DEF MakingOf
<1>8. MakingOf(r, c.par)'
  BY <1>3, <1>4, <1>7, OfStays
<1>9. Past'
  BY <1>1, <1>3, <1>6, <1>8, MakingPast
<1>. QED BY <1>3, <1>9 DEF Unseen

LEMMA CreateSeen ==
  ASSUME StepInv, NEW p, NEW perm, NEW now, create_begin(p, perm, now)
  PROVE  Unseen \/ Whole
<1> DEFINE r == <<"create", p, perm, now>>
<1>1. Take(r) /\ r[1] = "create" /\ r[2] = p /\ r[3] = perm /\ r[4] = now
  BY DEF create_begin
<1>2. CASE create_errno(p) # 0 /\ Refuse(create_errno(p))
  <2>1. op = Idle /\ map0 = map /\ disk0 = disk /\ up = "mounted" /\ req' = r
    BY <1>1, Idling
  <2>2. op' = Idle /\ F!Fail(create_errno(p)) /\ F!create_errno(p) = create_errno(p)
    BY <1>2, <2>1, RefuseSeen, SameChecksNow
  <2>3. F!fs_create(p, perm, now)
    BY <1>2, <2>1, <2>2 DEF F!fs_create
  <2>. QED BY <1>1, <2>1, <2>2, <2>3, AtomicCases DEF Whole
<1>3. CASE create_errno(p) = 0 /\ Begin(Call("alloc", 0, NewInode("file", perm, now, 0, NoPtr),
                                             path2inum(Front(p))))
  BY <1>1, <1>3, MakingSeen, "create" \in Making DEF Making
<1>. QED BY <1>2, <1>3 DEF create_begin

LEMMA MkdirSeen ==
  ASSUME StepInv, NEW p, NEW perm, NEW now, mkdir_begin(p, perm, now)
  PROVE  Unseen \/ Whole
<1> DEFINE r == <<"mkdir", p, perm, now>>
<1>1. Take(r) /\ r[1] = "mkdir" /\ r[2] = p /\ r[3] = perm /\ r[4] = now
  BY DEF mkdir_begin
<1>2. CASE create_errno(p) # 0 /\ Refuse(create_errno(p))
  <2>1. op = Idle /\ map0 = map /\ disk0 = disk /\ up = "mounted" /\ req' = r
    BY <1>1, Idling
  <2>2. op' = Idle /\ F!Fail(create_errno(p)) /\ F!create_errno(p) = create_errno(p)
    BY <1>2, <2>1, RefuseSeen, SameChecksNow
  <2>3. F!fs_mkdir(p, perm, now)
    BY <1>2, <2>1, <2>2 DEF F!fs_mkdir
  <2>. QED BY <1>1, <2>1, <2>2, <2>3, AtomicCases DEF Whole
<1>3. CASE create_errno(p) = 0 /\ Begin(Call("alloc", 0, NewInode("dir", perm, now, BlockSize, NoPtr),
                                             path2inum(Front(p))))
  BY <1>1, <1>3, MakingSeen, "mkdir" \in Making DEF Making
<1>. QED BY <1>2, <1>3 DEF mkdir_begin

LEMMA MakingNow ==
  ASSUME StepInv, Past, op # Idle, Creating
  PROVE  /\ op \in Locals /\ req[1] \in Making /\ up = "mounted"
         /\ req[1] = "create" \/ req[1] = "mkdir"
         /\ MakingOf(req, op.par) /\ MakingAt(op, req, map, disk, map0, disk0)
BY DEF StepInv, Past, Creating, Making

LEMMA AllocInodeSeen ==
  ASSUME StepInv, Past, Creating, alloc_inode
  PROVE  Unseen
<1> DEFINE r == alloc_blk(map)
           s == after(req[1], "alloc")
           l == [[op EXCEPT !.i = r] EXCEPT !.pc = s]
<1>1. op # Idle /\ op.pc = "alloc" /\ map' = Taken(map, r) /\ disk' = disk /\ Go(l)
  BY DEF alloc_inode, At, Marked, Advance, Taken
<1>2. /\ op \in Locals /\ req[1] \in Making
      /\ req[1] = "create" \/ req[1] = "mkdir"
      /\ MakingAt(op, req, map, disk, map0, disk0)
  BY <1>1, MakingNow
<1>3. s = IF req[1] = "mkdir" THEN "allocdir" ELSE "inode"
  BY <1>2, AfterMaking
<1> HIDE DEF r, s
<1>4. l.pc = s /\ l.i = r /\ l.node = op.node /\ l.par = op.par /\ l.pnode = op.pnode
  BY <1>2 DEF Locals
<1>5. map = map0 /\ disk = disk0
  BY <1>1, <1>2 DEF MakingAt
<1> HIDE DEF l
<1>6. MakingAt(l, req, map', disk', map0, disk0)
  BY <1>1, <1>2, <1>3, <1>4, <1>5 DEF MakingAt, Map1, Map2, Disk1, r
<1>. QED BY <1>1, <1>2, <1>4, <1>6, MakingGoes

LEMMA AllocDirsSeen ==
  ASSUME StepInv, Past, Creating, alloc_dirs
  PROVE  Unseen
<1> DEFINE r == alloc_blk(map)
           n == [op.node EXCEPT !.ptrs[0] = r]
           l == [op EXCEPT !.node = n, !.pc = "dirs"]
<1>1. /\ op # Idle /\ op.pc = "allocdir" /\ req[1] = "mkdir"
      /\ map' = Taken(map, r) /\ disk' = disk
  BY DEF alloc_dirs, At, Marked, Taken, Creating, Allocated
<1>2. /\ op \in Locals /\ req[1] \in Making
      /\ MakingAt(op, req, map, disk, map0, disk0)
  BY <1>1, MakingNow
<1>3. Go(l)
  <2>1. after(req[1], op.pc) = "dirs"
    BY <1>1, <1>2, AfterMaking
  <2>2. Go([[op EXCEPT !.node.ptrs[0] = r] EXCEPT !.pc = "dirs"])
    BY <2>1 DEF alloc_dirs, Advance
  <2>. QED BY <2>2, <1>2 DEF Locals
<1>4. /\ op.node = NewInode("dir", req[3], req[4], BlockSize, op.node.ptrs[0])
      /\ map = Map1(map0) /\ disk = disk0 /\ op.i = alloc_blk(map0) /\ op.pnode = disk0[op.par]
  BY <1>1, <1>2 DEF MakingAt
<1> HIDE DEF r
<1>5. n = NewInode("dir", req[3], req[4], BlockSize, r) /\ n.ptrs[0] = r
  <2>1. 0 \in PtrIdx
    BY SizesAssumption DEF PtrIdx
  <2>. QED BY <1>4, <2>1 DEF NewInode
<1> HIDE DEF n
<1>6. l.pc = "dirs" /\ l.i = op.i /\ l.node = n /\ l.par = op.par /\ l.pnode = op.pnode
  BY <1>2 DEF Locals
<1> HIDE DEF l
<1>7. MakingAt(l, req, map', disk', map0, disk0)
  BY <1>1, <1>4, <1>5, <1>6 DEF MakingAt, Map2, r
<1>. QED BY <1>1, <1>2, <1>3, <1>6, <1>7, MakingGoes

\* The atomic handlers in the terms of MakingAt.
LEMMA AddEntrySeen ==
  ASSUME NEW r, NEW par, MakingOf(r, par), NEW i, NEW m, NEW d, NEW e, NEW K,
         e = disk0[par].ptrs[0], K = FreeSlots(d[e].ents),
         \/ K = {} /\ F!Return(m, d, -EINVAL)
         \/ K # {} /\ F!Return(m, [d EXCEPT ![e].ents[Min(K)] = Entry(i, Last(r[2]))], 0)
  PROVE  F!add_entry(r[2], i, m, d)
<1>1. F!DirBlkOf(F!path2inum(F!Front(r[2]))) = e
  BY SameOperators DEF MakingOf, F!DirBlkOf
<1>2. /\ F!FreeSlots(d[e].ents) = K /\ F!Min(K) = Min(K) /\ F!EINVAL = EINVAL
      /\ F!Entry(i, F!Last(r[2])) = Entry(i, Last(r[2]))
  BY SameOperators, SameConstants
<1>. QED BY <1>1, <1>2 DEF F!add_entry

LEMMA MakingWhole ==
  ASSUME Past, op # Idle, req[1] \in Making,
         NEW m, NEW d,
         m = Map2(req, map0), d = Disk2(op, req, disk0),
         op.i = alloc_blk(map0), op.i > 0,
         req[1] = "mkdir" => op.node.ptrs[0] = alloc_blk(Map1(map0)) /\ op.node.ptrs[0] > 0,
         F!add_entry(req[2], op.i, m, d)
  PROVE  Atomic(req)
<1>1. /\ F!create_errno(req[2]) = 0 /\ up = "mounted"
      /\ MakingAt(op, req, map, disk, map0, disk0)
  BY DEF Past, MakingOf
<1>2. F!alloc_blk(map0) = op.i /\ F!alloc_blk(Map1(map0)) = alloc_blk(Map1(map0))
  BY SameOperators
<1>3. Map1(map0) = F!bit_set(map0, {op.i})
  BY DEF Map1, Taken, F!bit_set, bit_set
<1>4. CASE req[1] = "create"
  <2>1. op.node = F!NewInode("file", req[3], req[4], 0, NoPtr)
    BY <1>1, <1>4, SameNewInode DEF MakingAt
  <2>2. m = F!bit_set(map0, {op.i}) /\ d = [disk0 EXCEPT ![op.i] = op.node]
    BY <1>3, <1>4 DEF Map2, Disk1, Disk2
  <2>3. F!fs_create(req[2], req[3], req[4])
    BY <1>1, <1>2, <2>1, <2>2 DEF F!fs_create
  <2>. QED BY <1>4, <2>3, AtomicCases
<1>5. CASE req[1] = "mkdir"
  <2> DEFINE b == op.node.ptrs[0]
  <2>0. b = alloc_blk(Map1(map0)) /\ b > 0
    BY <1>5
  <2>1. op.node = F!NewInode("dir", req[3], req[4], BlockSize, b) /\ F!EmptyDir = EmptyDir
    BY <1>1, <1>5, SameNewInode, SameConstants DEF MakingAt
  <2>2. m = F!bit_set(Map1(map0), {b})
    BY <2>0, <1>5 DEF Map2, Taken, F!bit_set, bit_set
  <2>3. d = [disk0 EXCEPT ![b] = EmptyDir, ![op.i] = op.node]
    BY <1>5 DEF Disk1, Disk2
  <2> HIDE DEF b
  <2>4. F!fs_mkdir(req[2], req[3], req[4])
    BY <1>1, <1>2, <1>3, <2>0, <2>1, <2>2, <2>3 DEF F!fs_mkdir
  <2>. QED BY <1>5, <2>4, AtomicCases
<1>. QED BY <1>4, <1>5 DEF Making

\* alloc_blk gives a block number or an error.
LEMMA AllocSign ==
  ASSUME NEW m
  PROVE  alloc_blk(m) \in Int /\ (alloc_blk(m) > 0 \/ alloc_blk(m) < 0)
BY AllocResult DEF Blk, ENOSPC

\* A step that writes a block it was given and changes no local variable.
LEMMA NextStage ==
  ASSUME op \in Locals, NEW s \in Stages, after(req[1], op.pc) = s, Advance(op)
  PROVE  LET l == [op EXCEPT !.pc = s]
         IN  /\ Go(l) /\ l.pc = s /\ l.i = op.i /\ l.node = op.node
             /\ l.par = op.par /\ l.pnode = op.pnode
BY SetPc DEF Advance

LEMMA WriteNewDirsSeen ==
  ASSUME StepInv, Past, Creating, write_new_dirs
  PROVE  Unseen \/ (Whole /\ req' = req)
<1> DEFINE b == op.node.ptrs[0]
           l == [op EXCEPT !.pc = "inode"]
<1>1. op # Idle /\ op.pc = "dirs" /\ req[1] = "mkdir"
  BY DEF write_new_dirs, At, Creating, Allocated
<1>2. /\ op \in Locals /\ req[1] \in Making /\ up = "mounted" /\ MakingOf(req, op.par)
      /\ MakingAt(op, req, map, disk, map0, disk0)
  BY <1>1, MakingNow
<1>3. /\ op.node = NewInode("dir", req[3], req[4], BlockSize, b)
      /\ map = Map2(req, map0) /\ disk = disk0 /\ op.i = alloc_blk(map0)
      /\ op.pnode = disk0[op.par] /\ b = alloc_blk(Map1(map0))
  BY <1>1, <1>2 DEF MakingAt
<1>4. CASE AssertFails(b)
  <2>1. b <= 0 /\ op' = Idle /\ req' = req /\ F!Abort(map, disk)
    BY <1>4, AssertSeen DEF AssertFails
  <2>2. b < 0 /\ ~(b > 0)
    BY <1>3, <2>1, AllocSign
  <2>3. map = Map1(map0)
    BY <1>1, <1>3, <2>2 DEF Map2, Taken
  <2>4. /\ F!alloc_blk(map0) = op.i /\ F!alloc_blk(Map1(map0)) = b
        /\ Map1(map0) = IF op.i > 0 THEN F!bit_set(map0, {op.i}) ELSE map0
        /\ F!create_errno(req[2]) = 0
    BY <1>2, <1>3, SameOperators DEF Map1, Taken, F!bit_set, bit_set, MakingOf
  <2> HIDE DEF b
  <2>5. F!fs_mkdir(req[2], req[3], req[4])
    BY <1>2, <1>3, <2>1, <2>2, <2>3, <2>4 DEF F!fs_mkdir
  <2>. QED BY <1>1, <2>1, <2>5, AtomicCases DEF Whole
<1>5. CASE block_write(b, EmptyDir) /\ Advance(op)
  <2>1. b > 0 /\ disk' = [disk EXCEPT ![b] = EmptyDir] /\ map' = map
    BY <1>5 DEF block_write
  <2>2. after(req[1], op.pc) = "inode" /\ "inode" \in Stages
    BY <1>1, <1>2, AfterMaking DEF Stages
  <2>3. /\ Go(l) /\ l.pc = "inode" /\ l.i = op.i /\ l.node = op.node
        /\ l.par = op.par /\ l.pnode = op.pnode
    BY <1>2, <1>5, <2>2, NextStage
  <2> HIDE DEF l
  <2>4. MakingAt(l, req, map', disk', map0, disk0)
    BY <1>1, <1>3, <2>1, <2>3 DEF MakingAt, Disk1
  <2>. QED BY <1>1, <1>2, <2>3, <2>4, MakingGoes
<1>. QED BY <1>4, <1>5 DEF write_new_dirs

LEMMA WriteNewInodeSeen ==
  ASSUME StepInv, Past, Creating, write_new_inode
  PROVE  Unseen \/ (Whole /\ req' = req)
<1> DEFINE l == [op EXCEPT !.pc = "entry"]
<1>1. op # Idle /\ op.pc = "inode"
  BY DEF write_new_inode, At
<1>2. /\ op \in Locals /\ req[1] \in Making /\ up = "mounted" /\ MakingOf(req, op.par)
      /\ MakingAt(op, req, map, disk, map0, disk0)
      /\ req[1] = "create" \/ req[1] = "mkdir"
  BY <1>1, MakingNow
<1>3. /\ map = Map2(req, map0) /\ disk = Disk1(op, req, disk0) /\ op.i = alloc_blk(map0)
  BY <1>1, <1>2 DEF MakingAt
<1>4. CASE AssertFails(op.i)
  <2>1. op.i <= 0 /\ op' = Idle /\ req' = req /\ F!Abort(map, disk)
    BY <1>4, AssertSeen DEF AssertFails
  <2>2. req[1] = "create" /\ op.i < 0 /\ ~(op.i > 0)
    BY <1>1, <1>2, <1>3, <2>1, AllocSign DEF Creating, Allocated
  <2>3. map = map0 /\ disk = disk0
    BY <1>3, <2>2 DEF Map1, Map2, Taken, Disk1
  <2>4. F!alloc_blk(map0) = op.i /\ F!create_errno(req[2]) = 0
    BY <1>2, <1>3, SameOperators DEF MakingOf
  <2>5. F!fs_create(req[2], req[3], req[4])
    BY <1>2, <1>3, <2>1, <2>2, <2>3, <2>4 DEF F!fs_create
  <2>. QED BY <2>1, <2>2, <2>5, AtomicCases DEF Whole
<1>5. CASE block_write(op.i, op.node) /\ Advance(op)
  <2>1. op.i > 0 /\ disk' = [disk EXCEPT ![op.i] = op.node] /\ map' = map
    BY <1>5 DEF block_write
  <2>2. after(req[1], op.pc) = "entry" /\ "entry" \in Stages
    BY <1>1, <1>2, AfterMaking DEF Stages
  <2>3. /\ Go(l) /\ l.pc = "entry" /\ l.i = op.i /\ l.node = op.node
        /\ l.par = op.par /\ l.pnode = op.pnode
    BY <1>2, <1>5, <2>2, NextStage
  <2> HIDE DEF l
  <2>4. disk' = Disk2(l, req, disk0)
    BY <1>3, <2>1, <2>3 DEF Disk1, Disk2
  <2>5. MakingAt(l, req, map', disk', map0, disk0)
    BY <1>1, <1>2, <1>3, <2>1, <2>3, <2>4 DEF MakingAt
  <2>. QED BY <1>1, <1>2, <2>3, <2>5, MakingGoes
<1>. QED BY <1>4, <1>5 DEF write_new_inode

LEMMA WriteEntrySeen ==
  ASSUME StepInv, Past, Creating, write_entry
  PROVE  Unseen \/ (Whole /\ req' = req)
<1> DEFINE e == op.pnode.ptrs[0]
           K == FreeSlots(disk[e].ents)
           c == [disk[e] EXCEPT !.ents[Min(K)] = Entry(op.i, Last(req[2]))]
           l == [op EXCEPT !.pc = "parent"]
<1>1. op # Idle /\ op.pc = "entry"
  BY DEF write_entry, At
<1>2. /\ op \in Locals /\ req[1] \in Making /\ MakingOf(req, op.par)
      /\ MakingAt(op, req, map, disk, map0, disk0)
  BY <1>1, MakingNow
<1>3. /\ map = Map2(req, map0) /\ disk = Disk2(op, req, disk0) /\ op.i = alloc_blk(map0)
      /\ op.i > 0 /\ e = disk0[op.par].ptrs[0]
      /\ req[1] = "mkdir" => op.node.ptrs[0] = alloc_blk(Map1(map0)) /\ op.node.ptrs[0] > 0
  BY <1>1, <1>2 DEF MakingAt
<1>4. CASE K = {} /\ Refuse(-EINVAL) /\ UNCHANGED <<req, strayed>>
  <2>1. op' = Idle /\ F!Return(map, disk, -EINVAL)
    BY <1>4, EndSeen DEF Refuse
  <2> HIDE DEF e
  <2>2. F!add_entry(req[2], op.i, map, disk)
    BY <1>2, <1>3, <1>4, <2>1, AddEntrySeen
  <2>3. Atomic(req)
    BY <1>1, <1>2, <1>3, <2>2, MakingWhole
  <2>. QED BY <1>4, <2>1, <2>3 DEF Whole
<1>5. CASE K # {} /\ block_write(e, c) /\ Advance(op)
  <2>1. disk' = [disk EXCEPT ![e] = c] /\ map' = map
    BY <1>5 DEF block_write
  <2>2. after(req[1], op.pc) = "parent" /\ "parent" \in Stages
    BY <1>1, <1>2, AfterMaking DEF Stages
  <2>3. /\ Go(l) /\ l.pc = "parent" /\ l.i = op.i /\ l.node = op.node
        /\ l.par = op.par /\ l.pnode = op.pnode
    BY <1>2, <1>5, <2>2, NextStage
  <2> HIDE DEF l, e
  <2>4. disk' = [disk EXCEPT ![e].ents[Min(K)] = Entry(op.i, Last(req[2]))]
    BY <2>1
  <2>5. Disk2(l, req, disk0) = disk
    BY <1>3, <2>3 DEF Disk1, Disk2
  <2>6. MakingAt(l, req, map', disk', map0, disk0)
    BY <1>1, <1>2, <1>3, <1>5, <2>1, <2>3, <2>4, <2>5 DEF MakingAt
  <2>. QED BY <1>1, <1>2, <2>3, <2>6, MakingGoes
<1>. QED BY <1>4, <1>5, Zenon DEF write_entry

\* The copy of the parent's inode that is written back is what is there.
LEMMA WriteParentSeen ==
  ASSUME StepInv, Past, Creating, write_parent
  PROVE  Whole /\ req' = req
<1> DEFINE d == Disk2(op, req, disk0)
           e == disk0[op.par].ptrs[0]
           K == FreeSlots(d[e].ents)
<1>1. op # Idle /\ op.pc = "parent" /\ End(0) /\ req' = req
      /\ disk' = [disk EXCEPT ![op.par] = op.pnode] /\ map' = map
  BY DEF write_parent, At, block_write
<1>2. /\ op \in Locals /\ req[1] \in Making /\ MakingOf(req, op.par)
      /\ MakingAt(op, req, map, disk, map0, disk0)
  BY <1>1, MakingNow
<1>3. /\ map = Map2(req, map0) /\ op.i = alloc_blk(map0) /\ op.i > 0
      /\ req[1] = "mkdir" => op.node.ptrs[0] = alloc_blk(Map1(map0)) /\ op.node.ptrs[0] > 0
      /\ K # {} /\ disk = [d EXCEPT ![e].ents[Min(K)] = Entry(op.i, Last(req[2]))]
  BY <1>1, <1>2 DEF MakingAt
<1>4. disk' = disk
  BY <1>1 DEF Creating, ParentRead, StepInv, TypeOK
<1>5. op' = Idle /\ F!Return(map, disk, 0)
  BY <1>1, <1>4, EndSeen
<1> HIDE DEF d, e, K
<1>6. F!add_entry(req[2], op.i, map, d)
  BY <1>2, <1>3, <1>5, AddEntrySeen DEF e, K
<1>7. Atomic(req)
  BY <1>1, <1>2, <1>3, <1>6, MakingWhole DEF d
<1>. QED BY <1>1, <1>5, <1>7 DEF Whole

-----------------------------------------------------------------------------
(***************************************************************************)
(* fs_unlink, fs_rmdir and fs_truncate.                                    *)
(***************************************************************************)
LEMMA NoPtrs == \A in : FirstPtrs(in, 0) = {}
BY DEF FirstPtrs

LEMMA OneMorePtr ==
  ASSUME NEW in, NEW q \in Nat
  PROVE  FirstPtrs(in, q + 1) = FirstPtrs(in, q) \cup {in.ptrs[q]}
<1>1. 0 .. (q + 1) - 1 = 0 .. q - 1 \cup {q}
  OBVIOUS
<1>. QED BY <1>1 DEF FirstPtrs

LEMMA RemovalSeen ==
  ASSUME StepInv, NEW r, Take(r), r[1] \in Removing, removal_errno(r) = 0,
         Begin(Call("free", path2inum(r[2]), disk[path2inum(r[2])], ParentOf(r)))
  PROVE  Unseen
<1>1. map0 = map /\ disk0 = disk /\ up = "mounted" /\ req' = r
  BY Idling
<1>2. PICK i, par, c : i = path2inum(r[2]) /\ par = ParentOf(r) /\ c = Call("free", i, disk[i], par)
  OBVIOUS
<1>3. /\ op' = c /\ map' = map /\ disk' = disk /\ ret' = ret /\ up' = up
      /\ map0' = map0 /\ disk0' = disk0
  BY <1>2 DEF Begin
<1>4. /\ c.pc = "free" /\ c.i = i /\ c.node = disk[i] /\ c.par = par /\ c.pnode = disk[par]
      /\ c.q = 0
  BY <1>2, CallFields
<1>5. RemovalAt(c, r, map, disk, map, disk)
  BY <1>4, NoPtrs DEF RemovalAt
<1>6. RemovalOf(r, i, par)
  <2>1. \A p : F!path2inum(p) = path2inum(p)
    BY <1>1, SamePathsNow
  <2>2. /\ \A p : /\ F!unlink_errno(p) = unlink_errno(p) /\ F!rmdir_errno(p) = rmdir_errno(p)
                  /\ F!file_errno(p) = file_errno(p)
    BY <1>1, SameChecksNow
  <2>3. CASE r[1] = "unlink"
    BY <1>2, <2>1, <2>2, <2>3 DEF RemovalOf, removal_errno, ParentOf
  <2>4. CASE r[1] = "rmdir"
    BY <1>2, <2>1, <2>2, <2>4 DEF RemovalOf, removal_errno, ParentOf
  <2>5. CASE r[1] = "truncate"
    BY <1>2, <2>1, <2>2, <2>5 DEF RemovalOf, removal_errno, ParentOf, EINVAL
  <2>. QED BY <2>3, <2>4, <2>5 DEF Removing
<1>7. RemovalOf(r, c.i, c.par)'
  BY <1>3, <1>4, <1>6, OfStays
<1>8. Past'
  BY <1>1, <1>3, <1>5, <1>7, RemovalPast
<1>. QED BY <1>3, <1>8 DEF Unseen

LEMMA UnlinkSeen ==
  ASSUME StepInv, NEW p, unlink_begin(p)
  PROVE  Unseen \/ Whole
<1> DEFINE r == <<"unlink", p>>
<1>1. /\ Take(r) /\ r[1] = "unlink" /\ r[2] = p /\ removal_errno(r) = unlink_errno(p)
      /\ ParentOf(r) = path2inum(Front(p)) /\ r[1] \in Removing
  BY DEF unlink_begin, Removing, removal_errno, ParentOf
<1> HIDE DEF r
<1>2. CASE unlink_errno(p) # 0 /\ Refuse(unlink_errno(p))
  <2>1. op = Idle /\ map0 = map /\ disk0 = disk /\ up = "mounted" /\ req' = r
    BY <1>1, Idling
  <2>2. op' = Idle /\ F!Fail(unlink_errno(p)) /\ F!unlink_errno(p) = unlink_errno(p)
    BY <1>2, <2>1, RefuseSeen, SameChecksNow
  <2>3. \A now : F!fs_unlink(p, now)
    BY <1>2, <2>1, <2>2 DEF F!fs_unlink
  <2>4. \E now \in Times : F!fs_unlink(p, now)
    BY <2>3, AttrAssumption
  <2>. QED BY <1>1, <2>1, <2>2, <2>4, AtomicCases DEF Whole
<1>3. CASE /\ unlink_errno(p) = 0
           /\ Begin(Call("free", path2inum(p), disk[path2inum(p)], path2inum(Front(p))))
  BY <1>1, <1>3, RemovalSeen
<1>. QED BY <1>2, <1>3 DEF unlink_begin

LEMMA RmdirSeen ==
  ASSUME StepInv, NEW p, rmdir_begin(p)
  PROVE  Unseen \/ Whole
<1> DEFINE r == <<"rmdir", p>>
<1>1. /\ Take(r) /\ r[1] = "rmdir" /\ r[2] = p /\ removal_errno(r) = rmdir_errno(p)
      /\ ParentOf(r) = path2inum(Front(p)) /\ r[1] \in Removing
  BY DEF rmdir_begin, Removing, removal_errno, ParentOf
<1> HIDE DEF r
<1>2. CASE rmdir_errno(p) # 0 /\ Refuse(rmdir_errno(p))
  <2>1. op = Idle /\ map0 = map /\ disk0 = disk /\ up = "mounted" /\ req' = r
    BY <1>1, Idling
  <2>2. op' = Idle /\ F!Fail(rmdir_errno(p)) /\ F!rmdir_errno(p) = rmdir_errno(p)
    BY <1>2, <2>1, RefuseSeen, SameChecksNow
  <2>3. \A now : F!fs_rmdir(p, now)
    BY <1>2, <2>1, <2>2 DEF F!fs_rmdir
  <2>4. \E now \in Times : F!fs_rmdir(p, now)
    BY <2>3, AttrAssumption
  <2>. QED BY <1>1, <2>1, <2>2, <2>4, AtomicCases DEF Whole
<1>3. CASE /\ rmdir_errno(p) = 0
           /\ Begin(Call("free", path2inum(p), disk[path2inum(p)], path2inum(Front(p))))
  BY <1>1, <1>3, RemovalSeen
<1>. QED BY <1>2, <1>3 DEF rmdir_begin

LEMMA TruncateSeen ==
  ASSUME StepInv, NEW p, NEW len, truncate_begin(p, len)
  PROVE  Unseen \/ Whole
<1> DEFINE r == <<"truncate", p, len>>
<1>1. /\ Take(r) /\ r[1] = "truncate" /\ r[2] = p /\ r[3] = len
      /\ ParentOf(r) = RootInum /\ r[1] \in Removing
      /\ removal_errno(r) = IF len # 0 THEN -EINVAL ELSE file_errno(p)
  BY DEF truncate_begin, Removing, removal_errno, ParentOf
<1> HIDE DEF r
<1>2. op = Idle /\ map0 = map /\ disk0 = disk /\ up = "mounted" /\ req' = r
  BY <1>1, Idling
<1>3. CASE len # 0 /\ Refuse(-EINVAL)
  <2>1. op' = Idle /\ F!Fail(-EINVAL) /\ F!EINVAL = EINVAL
    BY <1>2, <1>3, RefuseSeen, SameConstants
  <2>2. F!fs_truncate(p, len)
    BY <1>2, <1>3, <2>1 DEF F!fs_truncate
  <2>. QED BY <1>1, <1>2, <2>1, <2>2, AtomicCases DEF Whole
<1>4. CASE len = 0 /\ file_errno(p) # 0 /\ Refuse(file_errno(p))
  <2>1. op' = Idle /\ F!Fail(file_errno(p)) /\ F!file_errno(p) = file_errno(p)
    BY <1>2, <1>4, RefuseSeen, SameChecksNow
  <2>2. F!fs_truncate(p, len)
    BY <1>2, <1>4, <2>1 DEF F!fs_truncate
  <2>. QED BY <1>1, <1>2, <2>1, <2>2, AtomicCases DEF Whole
<1>5. CASE /\ len = 0 /\ file_errno(p) = 0
           /\ Begin(Call("free", path2inum(p), disk[path2inum(p)], RootInum))
  BY <1>1, <1>5, RemovalSeen
<1>. QED BY <1>3, <1>4, <1>5 DEF truncate_begin

LEMMA RemovalNow ==
  ASSUME StepInv, Past, op # Idle, req[1] \in Removing
  PROVE  /\ op \in Locals /\ up = "mounted"
         /\ RemovalOf(req, op.i, op.par) /\ RemovalAt(op, req, map, disk, map0, disk0)
BY DEF StepInv, Past

LEMMA FreeBlockSeen ==
  ASSUME StepInv, Past, Freeing, free_block
  PROVE  Unseen
<1> DEFINE l == [op EXCEPT !.q = @ + 1]
<1>1. /\ op # Idle /\ op.pc = "free" /\ disk' = disk /\ Go(l)
      /\ map' = map \ {op.node.ptrs[op.q]} /\ req[1] \in Removing
  BY DEF free_block, At, free_blk, bit_clear, Freeing, Halfway, Removable
<1>2. op \in Locals /\ op.q \in Nat /\ RemovalAt(op, req, map, disk, map0, disk0)
  BY <1>1, RemovalNow, NodeTypes
<1>3. /\ l.pc = op.pc /\ l.i = op.i /\ l.node = op.node
      /\ l.par = op.par /\ l.pnode = op.pnode /\ l.q = op.q + 1
  BY <1>2, SetQ
<1> HIDE DEF l
<1>4. /\ op.node = disk0[op.i] /\ map = map0 \ FirstPtrs(disk0[op.i], op.q) /\ disk = disk0
  BY <1>1, <1>2 DEF RemovalAt
<1>5. map' = map0 \ FirstPtrs(disk0[op.i], op.q + 1)
  <2>1. FirstPtrs(disk0[op.i], op.q + 1) = FirstPtrs(disk0[op.i], op.q) \cup {disk0[op.i].ptrs[op.q]}
    BY <1>2, OneMorePtr
  <2>. QED BY <1>1, <1>4, <2>1
<1>6. RemovalAt(l, req, map', disk', map0, disk0)
  BY <1>1, <1>2, <1>3, <1>4, <1>5 DEF RemovalAt
<1>. QED BY <1>1, <1>3, <1>6, RemovalGoes

LEMMA FreeInodeSeen ==
  ASSUME StepInv, Past, Freeing, free_inode
  PROVE  Unseen
<1> DEFINE l == [op EXCEPT !.pc = "clear"]
<1>1. /\ op # Idle /\ op.pc = "free" /\ disk' = disk /\ Go(l) /\ op.q = ToFree
      /\ map' = map \ {op.i} /\ req[1] \in Removing
  BY DEF free_inode, At, free_blk, bit_clear, Freeing, Halfway, Removable
<1>2. op \in Locals /\ RemovalAt(op, req, map, disk, map0, disk0)
  BY <1>1, RemovalNow
<1>3. /\ l.pc = "clear" /\ l.i = op.i /\ l.node = op.node
      /\ l.par = op.par /\ l.pnode = op.pnode
  <2>1. "clear" \in Stages
    BY DEF Stages
  <2>. QED BY <1>2, <2>1, SetPc
<1> HIDE DEF l
<1>4. /\ op.node = disk0[op.i] /\ map = map0 \ FirstPtrs(disk0[op.i], ToFree) /\ disk = disk0
  BY <1>1, <1>2 DEF RemovalAt
<1>5. map' = map0 \ (FirstPtrs(disk0[op.i], ToFree) \cup {op.i})
  BY <1>1, <1>4
<1>6. RemovalAt(l, req, map', disk', map0, disk0)
  BY <1>1, <1>2, <1>3, <1>4, <1>5 DEF RemovalAt, ToFree
<1>. QED BY <1>1, <1>3, <1>6, RemovalGoes

LEMMA ClearEntrySeen ==
  ASSUME StepInv, Past, Clearing, clear_entry
  PROVE  Unseen
<1> DEFINE b == op.pnode.ptrs[0]
           K == {k \in Slots : disk[b].ents[k].valid /\ disk[b].ents[k].inode = op.i}
           c == IF K = {} THEN disk[b] ELSE [disk[b] EXCEPT !.ents[Min(K)] = EmptySlot]
           l == [op EXCEPT !.pc = "stamp"]
<1>1. At("clear") /\ block_write(b, c) /\ Go(l)
  BY Zenon DEF clear_entry
<1>2. op # Idle /\ op.pc = "clear" /\ req[1] \in Removing /\ req[1] # "truncate"
  BY <1>1 DEF At, Clearing, Halfway, Removable
<1>3. op \in Locals /\ RemovalAt(op, req, map, disk, map0, disk0)
  BY <1>2, RemovalNow
<1>4. /\ l.pc = "stamp" /\ l.i = op.i /\ l.node = op.node
      /\ l.par = op.par /\ l.pnode = op.pnode
  <2>1. "stamp" \in Stages
    BY DEF Stages
  <2>. QED BY <1>3, <2>1, SetPc
<1> HIDE DEF l
<1>5. disk = disk0 /\ b = disk0[op.par].ptrs[0]
  BY <1>2, <1>3 DEF RemovalAt
<1>6. disk' = [disk EXCEPT ![b] = c] /\ map' = map /\ disk \in [Blk -> Content]
  BY <1>1 DEF block_write, StepInv, TypeOK
<1> HIDE DEF b
<1>7. disk' = EntryGone(disk0, b, op.i)
  <2>1. CASE K = {}
    <3>1. disk' = disk
      BY <1>6, <2>1
    <3>. QED BY <1>5, <2>1, <3>1 DEF EntryGone
  <2>2. CASE K # {}
    BY <1>5, <1>6, <2>2 DEF EntryGone
  <2>. QED BY <2>1, <2>2
<1>8. RemovalAt(l, req, map', disk', map0, disk0)
  BY <1>2, <1>3, <1>4, <1>5, <1>6, <1>7 DEF RemovalAt
<1>. QED BY <1>1, <1>2, <1>4, <1>8, RemovalGoes

\* The copy of the parent's inode is what is on the disk, but for the time.
LEMMA StampParentSeen ==
  ASSUME StepInv, Past, Stamping, NEW now \in Times, stamp_parent(now)
  PROVE  Whole /\ req' = req
<1> DEFINE p == req[2]
           N == IF req[1] = "rmdir" THEN 1 ELSE nblocks(disk0[op.i])
           B == FirstPtrs(disk0[op.i], N)
           b == disk0[op.par].ptrs[0]
           K == {k \in Slots : disk0[b].ents[k].valid /\ disk0[b].ents[k].inode = op.i}
<1>1. /\ op # Idle /\ op.pc = "stamp" /\ End(0) /\ req' = req /\ map' = map
      /\ disk' = [disk EXCEPT ![op.par] = [op.pnode EXCEPT !.mtime = now]]
      /\ req[1] \in Removing /\ req[1] # "truncate" /\ op.pnode = disk[op.par]
  BY DEF stamp_parent, At, block_write, Stamping, ParentRead
<1>2. /\ up = "mounted" /\ RemovalOf(req, op.i, op.par)
      /\ RemovalAt(op, req, map, disk, map0, disk0)
  BY <1>1, RemovalNow
<1>3. map = map0 \ (B \cup {op.i}) /\ disk = EntryGone(disk0, b, op.i)
  BY <1>1, <1>2 DEF RemovalAt
<1>4. disk' = [disk EXCEPT ![op.par].mtime = now]
  BY <1>1
<1>5. op' = Idle /\ F!Return(map, [disk EXCEPT ![op.par].mtime = now], 0)
  BY <1>1, <1>4, EndSeen
<1>6. /\ F!path2inum(p) = op.i /\ F!path2inum(F!Front(p)) = op.par
      /\ F!DirBlkOf(op.par) = b /\ F!Dirs(op.par) = disk0[b].ents
      /\ F!Slots = Slots /\ F!EmptySlot = EmptySlot /\ F!Min(K) = Min(K)
  BY <1>1, <1>2, SameOperators, SameConstants DEF RemovalOf, F!DirBlkOf, F!Dirs
<1> HIDE DEF B, b, K
<1>7. F!free_blk(map0, B \cup {op.i}) = map
  BY <1>3 DEF F!free_blk, F!bit_clear
<1>8. K = {k \in F!Slots : F!Dirs(op.par)[k].valid /\ F!Dirs(op.par)[k].inode = op.i}
  BY <1>6 DEF K
<1>9. disk = IF K = {} THEN disk0 ELSE [disk0 EXCEPT ![b].ents[F!Min(K)] = F!EmptySlot]
  BY <1>3, <1>6 DEF EntryGone, K
<1>10. F!remove(p, B, now)
  <2> DEFINE i   == F!path2inum(p)
             par == F!path2inum(F!Front(p))
             J   == {k \in F!Slots : F!Dirs(par)[k].valid /\ F!Dirs(par)[k].inode = i}
             d   == IF J = {} THEN disk0
                    ELSE [disk0 EXCEPT ![F!DirBlkOf(par)].ents[F!Min(J)] = F!EmptySlot]
  <2>1. i = op.i /\ par = op.par
    BY <1>6
  <2>2. J = K
    <3> HIDE DEF i, par
    <3>. QED BY <1>8, <2>1
  <2>3. d = disk
    <3> HIDE DEF par, J
    <3>. QED BY <1>6, <1>9, <2>1, <2>2
  <2>4. F!Return(F!free_blk(map0, B \cup {i}), [d EXCEPT ![par].mtime = now], 0)
    <3> HIDE DEF i, par, d
    <3>. QED BY <1>5, <1>7, <2>1, <2>3
  <2>. QED BY ONLY <2>4, Zenon DEF F!remove
<1>11. CASE req[1] = "unlink"
  <2>1. F!FileBlocks(op.i) = B /\ F!unlink_errno(p) = 0
    BY <1>2, <1>11, SameOperators DEF F!FileBlocks, B, FirstPtrs, RemovalOf
  <2>2. F!fs_unlink(p, now)
    BY <1>2, <1>6, <1>10, <2>1 DEF F!fs_unlink
  <2>. QED BY <1>1, <1>5, <1>11, <2>2, AtomicCases DEF Whole
<1>12. CASE req[1] = "rmdir"
  <2>1. {F!DirBlkOf(op.i)} = B /\ F!rmdir_errno(p) = 0
    <3>1. 0 .. 1 - 1 = {0}
      OBVIOUS
    <3>. QED BY <1>2, <1>12, <3>1 DEF F!DirBlkOf, B, FirstPtrs, RemovalOf
  <2>2. F!fs_rmdir(p, now)
    BY <1>2, <1>6, <1>10, <2>1 DEF F!fs_rmdir
  <2>. QED BY <1>1, <1>5, <1>12, <2>2, AtomicCases DEF Whole
<1>. QED BY <1>1, <1>11, <1>12 DEF Removing

LEMMA TruncateInodeSeen ==
  ASSUME StepInv, Past, Freeing, truncate_inode
  PROVE  Whole /\ req' = req
<1>1. /\ op # Idle /\ op.pc = "free" /\ op.q = ToFree /\ req[1] = "truncate"
      /\ End(0) /\ req' = req /\ map' = map
      /\ disk' = [disk EXCEPT ![op.i] = [op.node EXCEPT !.size = 0]]
  BY DEF truncate_inode, At, block_write
<1>2. req[1] \in Removing
  BY <1>1 DEF Removing
<1>3. /\ up = "mounted" /\ RemovalOf(req, op.i, op.par)
      /\ RemovalAt(op, req, map, disk, map0, disk0)
  BY <1>1, <1>2, RemovalNow
<1>4. /\ op.node = disk0[op.i] /\ disk = disk0
      /\ map = map0 \ FirstPtrs(disk0[op.i], nblocks(disk0[op.i]))
  BY <1>1, <1>3 DEF RemovalAt, ToFree
<1>5. disk' = [disk0 EXCEPT ![op.i].size = 0]
  BY <1>1, <1>4
<1>6. op' = Idle /\ F!Return(map, [disk0 EXCEPT ![op.i].size = 0], 0)
  BY <1>1, <1>5, EndSeen
<1>7. /\ F!path2inum(req[2]) = op.i /\ F!file_errno(req[2]) = 0 /\ req[3] = 0
      /\ F!free_blk(map0, F!FileBlocks(op.i)) = map
  BY <1>1, <1>3, <1>4, SameOperators
     DEF RemovalOf, F!free_blk, F!bit_clear, F!FileBlocks, FirstPtrs
<1>8. F!fs_truncate(req[2], req[3])
  BY <1>3, <1>6, <1>7 DEF F!fs_truncate
<1>. QED BY <1>1, <1>6, <1>8, AtomicCases DEF Whole
-----------------------------------------------------------------------------
(***************************************************************************)
(* fs_write.                                                               *)
(***************************************************************************)
\* The blocks of a file hold data.
LEMMA FileData ==
  ASSUME Sound, NEW i \in Linked(disk), disk[i].type = "file"
  PROVE  \A x \in 0 .. nblocks(disk[i]) - 1 : disk[disk[i].ptrs[x]] = Data
<1> DEFINE N == nblocks(disk[i])
<1>1. disk[i] \in Inode /\ N \in 0 .. NumPtrs
  BY LinkedInode, BlocksOfInode
<1> HIDE DEF N
<1>2. SUFFICES ASSUME NEW x \in 0 .. N - 1
               PROVE  disk[disk[i].ptrs[x]] = Data
  BY DEF N
<1>3. x \in PtrIdx /\ x < N
  BY <1>1, SizesAssumption DEF PtrIdx
<1>4. x \in UsedPtrs(disk[i])
  BY <1>3 DEF UsedPtrs, N
<1>5. disk[i].ptrs[x] \in Blk /\ disk[disk[i].ptrs[x]].kind = "data" /\ disk \in [Blk -> Content]
  BY <1>4 DEF Sound, SoundImage, AllSound, InodeSound
<1>. QED BY <1>5, ContentKinds

LEMMA NoPtrsFrom ==
  ASSUME NEW N \in Nat, NEW q \in Nat, q <= N
  PROVE  N .. q - 1 = {} /\ \A in : PtrsFrom(in, N, q) = {}
<1>1. N .. q - 1 = {}
  OBVIOUS
<1>. QED BY <1>1 DEF PtrsFrom

LEMMA WriteSeen ==
  ASSUME StepInv, NEW p \in Paths, NEW off \in Offsets, NEW len \in Lengths,
         write_begin(p, off, len), ~strayed'
  PROVE  Unseen \/ Whole
<1> DEFINE r == <<"write", p, off, len>>
<1>1. /\ Take(r) /\ r[1] = "write" /\ r[2] = p /\ r[3] = off /\ r[4] = len
      /\ off \in Nat /\ len \in Nat
  BY RequestAssumption DEF write_begin
<1>2. /\ op = Idle /\ map0 = map /\ disk0 = disk /\ up = "mounted" /\ req' = r
  BY <1>1, Idling
<1>3. CASE ~write_allowed(p, off, len) /\ Refuse(write_answer(p, off, len))
  <2>1. /\ op' = Idle /\ F!Fail(write_answer(p, off, len))
        /\ F!write_allowed(p, off, len) = write_allowed(p, off, len)
        /\ F!write_answer(p, off, len) = write_answer(p, off, len)
    BY <1>2, <1>3, RefuseSeen, SameChecksNow
  <2>2. \A now : F!fs_write(p, off, len, now)
    <3>1. ~F!write_allowed(p, off, len) /\ F!Fail(F!write_answer(p, off, len))
      BY <1>3, <2>1
    <3>. QED BY <1>2, <3>1, Zenon DEF F!fs_write
  <2>3. \E now \in Times : F!fs_write(p, off, len, now)
    BY <2>2, AttrAssumption
  <2>. QED BY <1>1, <1>2, <2>1, <2>3, AtomicCases DEF Whole
<1>4. ASSUME write_allowed(p, off, len),
             NEW i, i = path2inum(p), NEW q, q = off \div BlockSize,
             NEW c, Begin(c), c.pc = "loop", c.i = i, c.node = disk[i], c.q = q
      PROVE  Unseen
  <2>0. Sound
    <3>1. r[1] \notin Removing
      BY <1>1 DEF Removing
    <3>. QED BY <1>1, <3>1, TakenSound
  <2>1. /\ i \in Linked(disk) /\ disk[i].type = "file" /\ disk[i] \in Inode
        /\ off <= disk[i].size
    BY <1>1, <1>4, <2>0, WriteAllowed
  <2>2. q \in Nat /\ q <= nblocks(disk[i]) /\ nblocks(disk[i]) \in Nat
    BY <1>1, <1>4, <2>1, FirstTouched, BlocksOfInode
  <2>3. c.pc = "loop" /\ c.i = i /\ c.node = disk[i] /\ c.q = q
    BY <1>4
  <2>4. /\ op' = c /\ map' = map /\ disk' = disk /\ ret' = ret /\ up' = up
        /\ map0' = map0 /\ disk0' = disk0
    BY <1>4 DEF Begin
  <2> DEFINE N == nblocks(disk[i])
  <2>5. N .. q - 1 = {} /\ PtrsFrom(disk[i], N, q) = {}
    BY <2>2, NoPtrsFrom
  <2>6. disk[i] = [disk[i] EXCEPT !.ptrs = disk[i].ptrs]
    BY <2>1 DEF Inode
  <2>7. \A x \in 0 .. N - 1 : disk[disk[i].ptrs[x]] = Data
    BY <2>0, <2>1, FileData
  <2> HIDE DEF r
  <2>8. WriteAt(c, r, map, disk, map, disk)
    BY <2>3, <2>5, <2>6, <2>7 DEF WriteAt, bit_set
  <2>9. WriteOf(r, i)
    BY <1>1, <1>2, <1>4, SamePathsNow, SameChecksNow DEF WriteOf
  <2>10. WriteOf(r, c.i)'
    BY <2>3, <2>4, <2>9, OfStays
  <2>11. Past'
    BY <1>1, <1>2, <2>4, <2>8, <2>10, WritePast
  <2>. QED BY <2>4, <2>11 DEF Unseen
<1>5. CASE /\ write_allowed(p, off, len)
           /\ Begin([Call("loop", path2inum(p), disk[path2inum(p)], RootInum)
                       EXCEPT !.q = off \div BlockSize, !.block_offset = off % BlockSize])
  <2>1. PICK i, q, o : i = path2inum(p) /\ q = off \div BlockSize /\ o = off % BlockSize
    OBVIOUS
  <2>2. PICK c : c = [Call("loop", i, disk[i], RootInum) EXCEPT !.q = q, !.block_offset = o]
    BY Zenon
  <2>3. Begin(c)
    BY <1>5, <2>1, <2>2
  <2>4. c.pc = "loop" /\ c.i = i /\ c.node = disk[i] /\ c.q = q
    BY <2>2 DEF Call
  <2>. QED BY <1>4, <1>5, <2>1, <2>3, <2>4
<1>. QED BY <1>3, <1>5 DEF write_begin

LEMMA SamePtrsFrom ==
  ASSUME NEW n, NEW k, NEW N \in Nat, NEW q \in Nat,
         \A x \in N .. q - 1 : n.ptrs[x] = k.ptrs[x]
  PROVE  \A y \in Nat : y <= q => PtrsFrom(n, N, y) = PtrsFrom(k, N, y)
<1> TAKE y \in Nat
<1> HAVE y <= q
<1>1. \A x \in N .. y - 1 : n.ptrs[x] = k.ptrs[x]
  OBVIOUS
<1>. QED BY <1>1 DEF PtrsFrom

LEMMA OneMoreFrom ==
  ASSUME NEW in, NEW N \in Nat, NEW q \in Nat, N <= q
  PROVE  PtrsFrom(in, N, q + 1) = PtrsFrom(in, N, q) \cup {in.ptrs[q]}
<1>1. N .. (q + 1) - 1 = N .. q - 1 \cup {q}
  OBVIOUS
<1>. QED BY <1>1 DEF PtrsFrom

\* What is known while fs_write runs.
LEMMA WriteNow ==
  ASSUME StepInv, Past, op # Idle, Writing
  PROVE  LET in == disk0[op.i]
             N  == nblocks(in)
         IN  /\ op \in Locals /\ up = "mounted" /\ req[1] = "write"
             /\ WriteOf(req, op.i) /\ WriteAt(op, req, map, disk, map0, disk0)
             /\ disk[op.i] = in /\ in \in Inode /\ in.type = "file"
             /\ N = FirstNew /\ N = nblocks(op.node) /\ N \in Nat /\ N <= NumPtrs
             /\ op.node \in Nodes /\ op.q \in Nat /\ op.i \in Blk
<1>1. req[1] = "write"
  BY DEF Writing
<1>2. /\ up = "mounted" /\ WriteOf(req, op.i) /\ WriteAt(op, req, map, disk, map0, disk0)
  BY <1>1 DEF Past
<1>3. disk[op.i] = disk0[op.i]
  BY <1>2 DEF WriteAt
<1>4. /\ op \in Locals /\ disk[op.i] \in Inode /\ disk[op.i].type = "file"
      /\ nblocks(op.node) = FirstNew /\ FirstNew \in 0 .. NumPtrs /\ op.q \in Nat /\ op.i \in Blk
  BY WritingFacts
<1>5. op.node \in Nodes
  BY <1>4, NodeTypes
<1>. QED BY <1>1, <1>2, <1>3, <1>4, <1>5, SizesAssumption DEF FirstNew

LEMMA AllocDataSeen ==
  ASSUME StepInv, Past, Writing, alloc_data
  PROVE  Unseen
<1> DEFINE r == alloc_blk(map)
           q == op.q
           n == [op.node EXCEPT !.ptrs[q] = r]
           l == [op EXCEPT !.node = n, !.pc = "data"]
           in == disk0[op.i]
           N  == nblocks(in)
<1>1. op # Idle /\ op.pc = "loop" /\ op.nread < length /\ q >= nblocks(op.node) /\ Marked(r)
  BY DEF alloc_data, InLoop, At
<1>2. /\ op \in Locals /\ req[1] = "write" /\ WriteAt(op, req, map, disk, map0, disk0)
      /\ N = nblocks(op.node) /\ N \in Nat /\ q \in Nat /\ op.node \in Nodes
  BY <1>1, WriteNow
<1>3. q \in PtrIdx
  BY <1>1, WritingFacts
<1>4. Go(l)
  <2>1. Go([op EXCEPT !.node.ptrs[q] = r, !.pc = "data"])
    BY DEF alloc_data
  <2>. QED BY <1>2, <2>1 DEF Locals
<1>5. r \in Blk \cup {-ENOSPC}
  BY AllocResult
<1>6. disk' = disk /\ map' = Taken(map, r)
  BY <1>1 DEF Marked, Taken
<1>7. /\ map = bit_set(map0, PtrsFrom(op.node, N, q))
      /\ r = alloc_blk(bit_set(map0, PtrsFrom(op.node, N, q)))
  BY <1>1, <1>2 DEF WriteAt
<1> HIDE DEF r
<1>8. /\ n.ptrs[q] = r /\ n = [op.node EXCEPT !.ptrs = n.ptrs]
      /\ \A x \in PtrIdx : x # q => n.ptrs[x] = op.node.ptrs[x]
  BY ONLY <1>2, <1>3, <1>5 DEF Nodes
<1>9. n \in Nodes
  BY ONLY <1>2, <1>3, <1>5 DEF Nodes
<1> HIDE DEF n
<1>10. /\ l.pc = "data" /\ l.i = op.i /\ l.node = n /\ l.q = q /\ l.nread = op.nread
  <2>1. "data" \in Stages
    BY DEF Stages
  <2>. QED BY ONLY <1>2, <1>9, <2>1 DEF Locals
<1> HIDE DEF l
<1>11. n = [in EXCEPT !.ptrs = n.ptrs]
  <2>1. op.node = [in EXCEPT !.ptrs = op.node.ptrs]
    BY <1>2 DEF WriteAt
  <2>. QED BY <1>8, <2>1
<1>12. \A x \in N .. q - 1 : n.ptrs[x] = op.node.ptrs[x]
  <2> HIDE DEF N
  <2>1. \A x \in N .. q - 1 : x \in PtrIdx /\ x # q
    BY <1>2, <1>3, SizesAssumption DEF PtrIdx
  <2>. QED BY <1>8, <2>1
<1>13. \A y \in Nat : y <= q => PtrsFrom(n, N, y) = PtrsFrom(op.node, N, y)
  BY <1>2, <1>12, SamePtrsFrom
<1>14. WriteAt(l, req, map', disk', map0, disk0)
  <2>1. disk'[op.i] = in /\ \A x \in 0 .. N - 1 : disk0[in.ptrs[x]] = Data
    BY <1>2, <1>6 DEF WriteAt
  <2>2. \A b \in Blk : disk'[b] = IF b \in PtrsFrom(n, N, q) THEN Data ELSE disk0[b]
    BY <1>2, <1>6, <1>13 DEF WriteAt
  <2>3. \A x \in N .. q - 1 : /\ n.ptrs[x] \in FreeBits(map0)
                              /\ n.ptrs[x] = alloc_blk(bit_set(map0, PtrsFrom(n, N, x)))
                              /\ x * BlockSize < req[3] + op.nread
    <3> TAKE x \in N .. q - 1
    <3>1. x \in Nat /\ x <= q
      BY <1>2
    <3>2. PtrsFrom(n, N, x) = PtrsFrom(op.node, N, x) /\ n.ptrs[x] = op.node.ptrs[x]
      BY <1>12, <1>13, <3>1
    <3>3. /\ op.node.ptrs[x] \in FreeBits(map0)
          /\ op.node.ptrs[x] = alloc_blk(bit_set(map0, PtrsFrom(op.node, N, x)))
          /\ x * BlockSize < req[3] + op.nread
      BY <1>2 DEF WriteAt
    <3>. QED BY <3>2, <3>3
  <2>4. /\ n.ptrs[q] = alloc_blk(bit_set(map0, PtrsFrom(n, N, q)))
        /\ map' = Taken(bit_set(map0, PtrsFrom(n, N, q)), n.ptrs[q])
    BY <1>2, <1>6, <1>7, <1>8, <1>13
  <2>. QED BY <1>10, <1>11, <2>1, <2>2, <2>3, <2>4 DEF WriteAt
<1>. QED BY <1>1, <1>2, <1>4, <1>10, <1>14, WriteGoes

\* The bits that are free after more have been set.
LEMMA FreeAfter ==
  ASSUME NEW m, NEW S
  PROVE  FreeBits(bit_set(m, S)) = FreeBits(m) \ S
BY DEF FreeBits, bit_set

\* The block that the second half of a turn writes.
LEMMA DataBlock ==
  ASSUME StepInv, Past, Writing, write_data
  PROVE  LET q   == op.q
             lba == op.node.ptrs[q]
             in  == disk0[op.i]
             N   == nblocks(in)
             m   == bit_set(map0, PtrsFrom(op.node, N, q))
         IN  /\ op # Idle /\ op.nread < length /\ q \in PtrIdx
             /\ \/ /\ op.pc = "loop" /\ q < N /\ map = m
                   /\ lba \in Blk /\ lba > 0 /\ disk[lba] = Data
                \/ /\ op.pc = "data" /\ N <= q /\ lba = alloc_blk(m) /\ map = Taken(m, lba)
                   /\ lba \in FreeBits(map0) /\ lba \in Blk /\ lba > 0 /\ lba # op.i
                \/ /\ op.pc = "data" /\ N <= q /\ lba < 0 /\ ~(lba > 0) /\ map = m
                   /\ FreeBits(m) = {}
<1> DEFINE q   == op.q
           lba == op.node.ptrs[q]
           in  == disk0[op.i]
           N   == nblocks(in)
           m   == bit_set(map0, PtrsFrom(op.node, N, q))
<1>1. /\ op # Idle /\ op.nread < length
      /\ op.pc = "data" \/ (op.pc = "loop" /\ q < nblocks(op.node))
  BY DEF write_data, InLoop, At, Writing
<1>2. /\ WriteAt(op, req, map, disk, map0, disk0) /\ disk[op.i] = in
      /\ N = nblocks(op.node) /\ N = FirstNew /\ N \in Nat /\ q \in Nat
  BY <1>1, WriteNow
<1>3. q \in PtrIdx /\ Sound /\ op.i \in Linked(disk) /\ disk[op.i].type = "file"
  BY <1>1, WritingFacts
<1>4. ASSUME op.pc = "loop"
      PROVE  q < N /\ map = m /\ lba \in Blk /\ lba > 0 /\ disk[lba] = Data
  <2>1. q < N /\ map = m
    BY <1>1, <1>2, <1>4 DEF WriteAt
  <2>2. lba = in.ptrs[q] /\ q \in 0 .. N - 1
    BY <1>2, <1>3, <2>1 DEF Writing, NodeRead
  <2>3. disk[lba] = Data
    BY <1>2, <1>3, <2>2, FileData
  <2>4. q \in UsedPtrs(disk[op.i])
    BY <1>2, <1>3, <2>2 DEF UsedPtrs
  <2>5. lba \in Blk /\ disk[0] = Super
    BY <1>2, <1>3, <2>2, <2>4 DEF Sound, SoundImage, AllSound, InodeSound, Reserved
  <2>6. lba # 0
    BY <2>3, <2>5 DEF Super, Data
  <2>. QED BY <2>1, <2>3, <2>5, <2>6 DEF Blk
<1>5. ASSUME op.pc = "data"
      PROVE  /\ N <= q /\ lba = alloc_blk(m) /\ map = Taken(m, lba)
             /\ lba > 0 => lba # op.i
  <2>1. lba = alloc_blk(m) /\ map = Taken(m, lba)
    BY <1>2, <1>5 DEF WriteAt
  <2>2. N <= q /\ (lba > 0 => Held(map, disk, NewBlks \cup {lba}))
    BY <1>2, <1>5 DEF Writing
  <2>3. lba > 0 => lba # op.i
    BY <1>3, <2>2 DEF Held, Spare, Owned
  <2>. QED BY <2>1, <2>2, <2>3
<1>6. \/ alloc_blk(m) < 0 /\ ~(alloc_blk(m) > 0) /\ FreeBits(m) = {}
      \/ /\ alloc_blk(m) \in FreeBits(map0) /\ alloc_blk(m) \in Blk /\ alloc_blk(m) > 0
  BY AllocResult, FreeAfter DEF Blk, ENOSPC
<1> HIDE DEF lba, N, m, q
<1>7. CASE op.pc = "loop"
  BY <1>1, <1>3, <1>4, <1>7 DEF lba, N, m, q
<1>8. CASE op.pc = "data"
  BY <1>1, <1>3, <1>5, <1>6, <1>8 DEF Taken, lba, N, m, q
<1>. QED BY <1>1, <1>7, <1>8

\* The loop has something to write, so it passes the first byte of the block.
LEMMA PassesFirst ==
  ASSUME NEW off \in Nat, NEW len \in Nat, NEW q \in Nat, NEW o \in Nat, NEW n \in Nat,
         n < len, Reached(off, len, q, o, n), NEW x, x = Min({BlockSize - o, len - n})
  PROVE  x \in Nat /\ q * BlockSize < off + (n + x)
<1>1. BlockSize - o \in Nat /\ len - n \in Nat /\ BlockSize - o > 0 /\ len - n > 0
  BY SizesAssumption DEF Reached
<1>2. x \in Nat /\ x > 0
  BY <1>1, MinOfTwo
<1>3. q * BlockSize \in Nat /\ q * BlockSize + o = off + n
  BY SizesAssumption DEF Reached
<1>. QED BY <1>2, <1>3

LEMMA DataGoes ==
  ASSUME StepInv, Past, Writing, write_data, NEW x,
         x = Min({BlockSize - op.block_offset, length - op.nread}),
         block_write(op.node.ptrs[op.q], Data),
         Go([op EXCEPT !.nread = op.nread + x, !.q = op.q + 1, !.block_offset = 0, !.pc = "loop"])
  PROVE  Unseen
<1> DEFINE q   == op.q
           n   == op.nread + x
           y   == q + 1
           l   == [op EXCEPT !.nread = n, !.q = y, !.block_offset = 0, !.pc = "loop"]
           lba == op.node.ptrs[q]
           in  == disk0[op.i]
           N   == nblocks(in)
           m   == bit_set(map0, PtrsFrom(op.node, N, q))
<1>1. /\ op # Idle /\ op.nread < length /\ q \in PtrIdx
      /\ \/ /\ op.pc = "loop" /\ q < N /\ map = m
            /\ lba \in Blk /\ lba > 0 /\ disk[lba] = Data
         \/ /\ op.pc = "data" /\ N <= q /\ lba = alloc_blk(m) /\ map = Taken(m, lba)
            /\ lba \in FreeBits(map0) /\ lba \in Blk /\ lba > 0 /\ lba # op.i
         \/ /\ op.pc = "data" /\ N <= q /\ lba < 0 /\ ~(lba > 0) /\ map = m
            /\ FreeBits(m) = {}
  BY DataBlock
<1>2. /\ op \in Locals /\ req[1] = "write" /\ WriteAt(op, req, map, disk, map0, disk0)
      /\ N \in Nat /\ q \in Nat /\ op.i \in Blk /\ disk[op.i] = in
  BY <1>1, WriteNow
<1>3. /\ offset \in Nat /\ length \in Nat /\ op.nread \in Nat /\ op.block_offset \in Nat
      /\ disk \in [Blk -> Content]
  BY <1>1, WritingFacts DEF Sound, SoundImage
<1>4. /\ x \in Nat /\ q * BlockSize < offset + n
  BY <1>1, <1>2, <1>3, PassesFirst DEF Writing, Position
<1>5. n \in Nat /\ y \in Nat
  BY <1>2, <1>3, <1>4
<1>6. lba > 0 /\ disk' = [disk EXCEPT ![lba] = Data] /\ map' = map
  BY DEF block_write
<1> HIDE DEF n, y
<1>7. /\ l.pc = "loop" /\ l.i = op.i /\ l.node = op.node /\ l.q = y /\ l.nread = n
  <2>1. "loop" \in Stages
    BY DEF Stages
  <2>. QED BY ONLY <1>2, <1>5, <2>1 DEF Locals
<1>8. Go(l)
  BY DEF n, y
<1> HIDE DEF l, m, N, lba
<1>9. /\ op.node = [in EXCEPT !.ptrs = op.node.ptrs]
      /\ \A b \in 0 .. N - 1 : disk0[in.ptrs[b]] = Data
      /\ \A b \in Blk : disk[b] = IF b \in PtrsFrom(op.node, N, q) THEN Data ELSE disk0[b]
      /\ \A b \in N .. q - 1 :
           /\ op.node.ptrs[b] \in FreeBits(map0)
           /\ op.node.ptrs[b] = alloc_blk(bit_set(map0, PtrsFrom(op.node, N, b)))
           /\ b * BlockSize < offset + op.nread
  BY <1>2 DEF WriteAt, N, offset
<1>10. /\ disk'[op.i] = in
       /\ map' = bit_set(map0, PtrsFrom(op.node, N, y))
       /\ \A b \in Blk : disk'[b] = IF b \in PtrsFrom(op.node, N, y) THEN Data ELSE disk0[b]
       /\ \A b \in N .. y - 1 :
            /\ op.node.ptrs[b] \in FreeBits(map0)
            /\ op.node.ptrs[b] = alloc_blk(bit_set(map0, PtrsFrom(op.node, N, b)))
            /\ b * BlockSize < offset + n
  <2>1. CASE op.pc = "loop"
    <3>1. q < N /\ map = m /\ lba \in Blk /\ disk[lba] = Data
      BY <1>1, <2>1
    <3>2. disk' = disk
      BY <1>3, <1>6, <3>1
    <3>3. /\ PtrsFrom(op.node, N, q) = {} /\ PtrsFrom(op.node, N, y) = {} /\ N .. y - 1 = {}
      BY <1>2, <1>5, <3>1, NoPtrsFrom DEF y
    <3>. QED BY <1>2, <1>6, <1>9, <3>1, <3>2, <3>3 DEF m
  <2>2. CASE op.pc = "data"
    <3>1. /\ N <= q /\ lba = alloc_blk(m) /\ map = Taken(m, lba)
          /\ lba \in FreeBits(map0) /\ lba \in Blk /\ lba # op.i
      BY <1>1, <1>6, <2>2
    <3>2. /\ N .. y - 1 = N .. q - 1 \cup {q}
          /\ PtrsFrom(op.node, N, y) = PtrsFrom(op.node, N, q) \cup {lba}
      <4>1. N \in Nat /\ q \in Nat /\ N <= q
        BY <1>2, <3>1
      <4> HIDE DEF q
      <4>2. N .. (q + 1) - 1 = N .. q - 1 \cup {q}
        BY ONLY <4>1
      <4>3. PtrsFrom(op.node, N, q + 1) = PtrsFrom(op.node, N, q) \cup {op.node.ptrs[q]}
        BY ONLY <4>1, OneMoreFrom
      <4>. QED BY ONLY <4>2, <4>3 DEF y, lba
    <3>3. disk'[op.i] = in
      BY <1>2, <1>3, <1>6, <3>1
    <3>4. map' = bit_set(map0, PtrsFrom(op.node, N, y))
      BY <1>6, <3>1, <3>2 DEF Taken, m, bit_set
    <3>5. \A b \in Blk : disk'[b] = IF b \in PtrsFrom(op.node, N, y) THEN Data ELSE disk0[b]
      BY <1>3, <1>6, <1>9, <3>1, <3>2
    <3>6. ASSUME NEW b \in N .. q - 1 PROVE b * BlockSize < offset + n
      <4>1. b * BlockSize < offset + op.nread /\ b \in Nat
        BY <1>2, <1>9
      <4>2. b * BlockSize \in Nat
        BY <4>1, SizesAssumption
      <4>. QED BY <1>3, <1>4, <4>1, <4>2 DEF n
    <3>7. ASSUME NEW b \in N .. y - 1
          PROVE  /\ op.node.ptrs[b] \in FreeBits(map0)
                 /\ op.node.ptrs[b] = alloc_blk(bit_set(map0, PtrsFrom(op.node, N, b)))
                 /\ b * BlockSize < offset + n
      <4>1. CASE b \in N .. q - 1
        BY <1>9, <3>6, <4>1
      <4>2. CASE b = q
        BY <1>4, <3>1, <4>2 DEF lba, m
      <4>. QED BY <3>2, <4>1, <4>2
    <3>. QED BY <3>3, <3>4, <3>5, <3>7
  <2>. QED BY <1>1, <2>1, <2>2
<1>11. WriteAt(l, req, map', disk', map0, disk0)
  BY <1>7, <1>9, <1>10 DEF WriteAt, N, offset
<1>. QED BY <1>1, <1>2, <1>7, <1>8, <1>11, WriteGoes

LEMMA ImageBound ==
  ASSUME NEW f, NEW a \in Nat, NEW b \in Nat, a <= b
  PROVE  LET T == {f[x] : x \in a .. b - 1}
         IN  IsFiniteSet(T) /\ Cardinality(T) \in Nat /\ Cardinality(T) <= b - a
<1> DEFINE S == a .. b - 1
           T == {f[x] : x \in S}
           g == [x \in S |-> f[x]]
<1>1. IsFiniteSet(S) /\ Cardinality(S) = b - a
  <2>1. IsFiniteSet(S) /\ Cardinality(S) = IF a > b - 1 THEN 0 ELSE (b - 1) - a + 1
    <3> DEFINE c == b - 1
    <3>1. a \in Int /\ c \in Int
      OBVIOUS
    <3> HIDE DEF c
    <3>2. IsFiniteSet(a .. c) /\ Cardinality(a .. c) = IF a > c THEN 0 ELSE c - a + 1
      BY <3>1, FS_Interval
    <3>. QED BY <3>2 DEF c
  <2> HIDE DEF S
  <2>. QED BY <2>1
<1> HIDE DEF S
<1>2. g \in Surjection(S, T)
  BY DEF Surjection
<1> HIDE DEF g, T
<1>3. IsFiniteSet(T) /\ Cardinality(T) <= Cardinality(S) /\ Cardinality(T) \in Nat
  BY <1>1, <1>2, FS_Surjection, FS_CardinalityType
<1>. QED BY <1>1, <1>3 DEF S, T

\* The pointers that a write needs beyond the N that the file has.
Unfilled(off, len, N) == {x \in Touched(off, len) : x >= N}

LEMMA NewFinite ==
  ASSUME NEW off \in Nat, NEW len \in Nat, NEW N \in Nat
  PROVE  IsFiniteSet(Unfilled(off, len, N))
<1>1. CASE len = 0
  <2>1. Unfilled(off, len, N) = {}
    BY <1>1 DEF Unfilled, Touched
  <2>. QED BY <2>1, FS_EmptySet
<1>2. CASE len # 0
  <2> DEFINE a == off \div BlockSize
             b == (off + len - 1) \div BlockSize
  <2>1. off + len - 1 \in Nat
    BY <1>2
  <2>2. a \in Int /\ b \in Int
    BY <2>1, DivFacts, SizesAssumption
  <2> HIDE DEF a, b
  <2>3. IsFiniteSet(a .. b)
    BY <2>2, FS_Interval
  <2>4. Unfilled(off, len, N) \in SUBSET (a .. b)
    BY <1>2 DEF Unfilled, Touched, a, b
  <2>. QED BY <2>3, <2>4, FS_Subset
<1>. QED BY <1>1, <1>2

\* What is at or after the end of the file and before the end of the write.
LEMMA InUnfilled ==
  ASSUME NEW in \in Inode, NEW off \in Nat, NEW len \in Nat, off <= in.size,
         NEW x \in Nat, x >= nblocks(in), x * BlockSize < off + len, len # 0
  PROVE  x \in Unfilled(off, len, nblocks(in))
<1> DEFINE a == off \div BlockSize
           e == off + len - 1
           b == e \div BlockSize
           N == nblocks(in)
<1>1. a \in Nat /\ a <= N /\ N \in Nat
  BY FirstTouched, BlocksOfInode
<1>2. e \in Nat
  OBVIOUS
<1> HIDE DEF e
<1>3. b \in Nat /\ e < b * BlockSize + BlockSize
  BY <1>2, DivFacts, SizesAssumption
<1> HIDE DEF a, b, N
<1>4. x * BlockSize < b * BlockSize + BlockSize
  <2>1. x * BlockSize \in Nat /\ b * BlockSize \in Nat
    BY <1>3, SizesAssumption
  <2>2. x * BlockSize <= e
    BY <2>1 DEF e
  <2>. QED BY <1>2, <1>3, <2>1, <2>2, SizesAssumption
<1>5. x <= b
  BY <1>3, <1>4, LeQuotient, SizesAssumption
<1>6. x \in a .. b
  BY <1>1, <1>3, <1>5 DEF N
<1>. QED BY <1>6 DEF Unfilled, Touched, a, b, e

\* No block is left for pointer q, so those before it took all there were.
LEMMA TooFew ==
  ASSUME NEW in \in Inode, NEW off \in Nat, NEW len \in Nat, off <= in.size,
         NEW ptrs, NEW q \in Nat, nblocks(in) <= q, q * BlockSize < off + len, len # 0
  PROVE  Cardinality(Unfilled(off, len, nblocks(in))) >
         Cardinality({ptrs[x] : x \in nblocks(in) .. q - 1})
<1> DEFINE N   == nblocks(in)
           New == Unfilled(off, len, N)
           P   == {ptrs[x] : x \in N .. q - 1}
<1>1. N \in Nat
  BY BlocksOfInode
<1>2. N .. q \in SUBSET New
  <2>1. SUFFICES ASSUME NEW x \in N .. q PROVE x \in New
    OBVIOUS
  <2> HIDE DEF N
  <2>2. x \in Nat /\ x >= N /\ x <= q
    BY <1>1
  <2>3. x * BlockSize \in Nat /\ q * BlockSize \in Nat /\ x * BlockSize <= q * BlockSize
    BY <2>2, SizesAssumption
  <2>4. x * BlockSize < off + len
    BY <2>3
  <2>. QED BY <2>2, <2>4, InUnfilled DEF N
<1> HIDE DEF N
<1>3. IsFiniteSet(New)
  BY <1>1, NewFinite
<1>4. Cardinality(P) \in Nat /\ Cardinality(P) <= q - N
  BY <1>1, ImageBound DEF N
<1>5. Cardinality(N .. q) = q - N + 1
  <2>1. Cardinality(N .. q) = IF N > q THEN 0 ELSE q - N + 1
    BY <1>1, FS_Interval
  <2>. QED BY <1>1, <2>1 DEF N
<1> HIDE DEF New, P
<1>6. Cardinality(N .. q) <= Cardinality(New) /\ Cardinality(New) \in Nat
  BY <1>2, <1>3, FS_Subset, FS_CardinalityType
<1>7. Cardinality(New) > Cardinality(P)
  BY <1>1, <1>4, <1>5, <1>6
<1>. QED BY <1>7 DEF New, P, N

LEMMA SameCardinality == \A S : F!Cardinality(S) = Cardinality(S)
BY DEF F!Cardinality, Cardinality

LEMMA SameUnfilled ==
  \A off, len, in :
     {q \in F!Touched(off, len) : q >= F!nblocks(in)} = Unfilled(off, len, nblocks(in))
BY SameOperators DEF Unfilled

LEMMA DataAborts ==
  ASSUME StepInv, Past, Writing, write_data, AssertFails(op.node.ptrs[op.q])
  PROVE  Whole /\ req' = req
<1> DEFINE q   == op.q
           lba == op.node.ptrs[q]
           in  == disk0[op.i]
           N   == nblocks(in)
           P   == PtrsFrom(op.node, N, q)
           m   == bit_set(map0, P)
           d   == [b \in Blk |-> IF b \in FreeBits(map0) THEN Data ELSE disk0[b]]
<1>1. lba <= 0 /\ op' = Idle /\ req' = req /\ F!Abort(map, disk)
  BY AssertSeen DEF AssertFails
<1>2. /\ op # Idle /\ op.nread < length /\ op.pc = "data" /\ N <= q /\ map = m /\ FreeBits(m) = {}
  <2>1. /\ op # Idle /\ op.nread < length
        /\ \/ lba \in Blk /\ lba > 0
           \/ op.pc = "data" /\ N <= q /\ map = m /\ FreeBits(m) = {}
    BY DataBlock
  <2>2. ~(lba \in Blk /\ lba > 0)
    BY <1>1 DEF Blk
  <2>. QED BY <2>1, <2>2
<1>3. /\ up = "mounted" /\ req[1] = "write" /\ WriteOf(req, op.i)
      /\ WriteAt(op, req, map, disk, map0, disk0)
      /\ in \in Inode /\ N \in Nat /\ q \in Nat /\ disk[op.i] = in
  BY <1>2, WriteNow
<1>4. /\ offset \in Nat /\ length \in Nat /\ op.nread \in Nat /\ op.block_offset \in Nat
      /\ disk \in [Blk -> Content]
  BY <1>2, WritingFacts DEF Sound, SoundImage
<1>5. P = FreeBits(map0)
  <2>1. P \subseteq FreeBits(map0)
    <3>1. \A x \in N .. q - 1 : op.node.ptrs[x] \in FreeBits(map0)
      BY <1>3 DEF WriteAt
    <3> HIDE DEF N, q
    <3>. QED BY <3>1 DEF PtrsFrom
  <2>2. FreeBits(map0) \ P = {}
    BY <1>2, FreeAfter
  <2>. QED BY <2>1, <2>2
<1>6. disk = d
  BY <1>3, <1>4, <1>5 DEF WriteAt
<1>7. Cardinality(Unfilled(offset, length, N)) > Cardinality(FreeBits(map0))
  <2>1. /\ offset <= in.size
        /\ q * BlockSize + op.block_offset = offset + op.nread
    BY <1>2, <1>3 DEF Writing, Position, Reached
  <2>2. q * BlockSize \in Nat
    BY <1>3, SizesAssumption
  <2>3. q * BlockSize < offset + length /\ length # 0
    BY <1>2, <1>4, <2>1, <2>2
  <2>4. P = {op.node.ptrs[x] : x \in N .. q - 1}
    BY DEF PtrsFrom
  <2>. QED BY <1>2, <1>3, <1>4, <1>5, <2>1, <2>3, <2>4, TooFew
<1>8. /\ F!path2inum(req[2]) = op.i /\ F!write_allowed(req[2], offset, length)
      /\ F!FreeBits(map0) = FreeBits(map0) /\ F!Blk = Blk /\ F!Data = Data
  BY <1>3, SameOperators, SameConstants DEF WriteOf, offset, length
<1>9. /\ F!Cardinality({x \in F!Touched(offset, length) : x >= F!nblocks(disk0[F!path2inum(req[2])])})
           > F!Cardinality(F!FreeBits(map0))
      /\ F!Abort(F!bit_set(map0, F!FreeBits(map0)),
                 [b \in F!Blk |-> IF b \in F!FreeBits(map0) THEN F!Data ELSE disk0[b]])
  <2>1. {x \in F!Touched(offset, length) : x >= F!nblocks(disk0[F!path2inum(req[2])])}
          = Unfilled(offset, length, N)
    BY <1>8, SameUnfilled
  <2>2. F!bit_set(map0, F!FreeBits(map0)) = map
    BY <1>2, <1>5, <1>8 DEF F!bit_set, bit_set
  <2>. QED BY <1>1, <1>6, <1>7, <1>8, <2>1, <2>2, SameCardinality
<1>10. \A now : F!fs_write(req[2], offset, length, now)
  BY <1>3, <1>8, <1>9, Zenon DEF F!fs_write
<1>11. \E now \in Times : F!fs_write(req[2], req[3], req[4], now)
  BY <1>10, AttrAssumption DEF offset, length
<1>. QED BY <1>1, <1>3, <1>11, AtomicCases DEF Whole

LEMMA WriteDataSeen ==
  ASSUME StepInv, Past, Writing, write_data
  PROVE  Unseen \/ (Whole /\ req' = req)
<1>1. PICK x : x = Min({BlockSize - op.block_offset, length - op.nread})
  OBVIOUS
<1>2. CASE AssertFails(op.node.ptrs[op.q])
  BY <1>2, DataAborts
<1>3. CASE /\ block_write(op.node.ptrs[op.q], Data)
           /\ Go([op EXCEPT !.nread = op.nread + x, !.q = op.q + 1,
                            !.block_offset = 0, !.pc = "loop"])
  BY <1>1, <1>3, DataGoes
<1>. QED BY <1>1, <1>2, <1>3 DEF write_data

\* When the loop is done, the pointers it has assigned are those that the
\* write needed.
LEMMA AllAssigned ==
  ASSUME NEW in \in Inode, NEW off \in Nat, NEW len \in Nat, off <= in.size,
         NEW q \in Nat, NEW o \in Nat, Reached(off, len, q, o, len),
         \A x \in nblocks(in) .. q - 1 : x * BlockSize < off + len
  PROVE  Unfilled(off, len, nblocks(in)) = nblocks(in) .. q - 1
<1> DEFINE N   == nblocks(in)
           New == Unfilled(off, len, N)
<1>1. N \in Nat /\ in.size \in Nat /\ in.size <= N * BlockSize /\ N * BlockSize \in Nat
  BY BlocksOfInode, RoundUp, SizesAssumption DEF nblocks, Inode
<1> HIDE DEF N
<1>2. CASE len = 0
  <2>1. New = {}
    BY <1>2 DEF Unfilled, Touched
  <2>2. ASSUME NEW x \in N .. q - 1 PROVE FALSE
    <3>1. x \in Nat /\ N <= x /\ x * BlockSize < off + 0
      BY <1>1, <1>2 DEF N
    <3>2. x * BlockSize \in Nat /\ N * BlockSize <= x * BlockSize
      BY <1>1, <3>1, SizesAssumption
    <3>. QED BY <1>1, <3>1, <3>2
  <2>. QED BY <2>1, <2>2 DEF N
<1>3. CASE len # 0
  <2>1. ASSUME NEW x \in N .. q - 1 PROVE x \in New
    <3>1. x \in Nat /\ x >= N /\ x * BlockSize < off + len
      BY <1>1 DEF N
    <3>. QED BY <1>3, <3>1, InUnfilled DEF N
  <2>2. ASSUME NEW x \in New PROVE x \in N .. q - 1
    <3> DEFINE e == off + len - 1
               b == e \div BlockSize
               a == off \div BlockSize
    <3>1. x >= N /\ x \in a .. b
      BY <1>3 DEF Unfilled, Touched
    <3>2. e \in Nat
      BY <1>3
    <3>3. b \in Nat /\ b * BlockSize <= e /\ a \in Nat
      BY <3>2, DivFacts, SizesAssumption
    <3>4. off + len <= q * BlockSize
      BY <1>3 DEF Reached
    <3> HIDE DEF b, a
    <3>5. x \in Nat /\ x <= b
      BY <3>1, <3>3
    <3>6. x * BlockSize \in Nat /\ x * BlockSize <= b * BlockSize /\ b * BlockSize \in Nat
          /\ q * BlockSize \in Nat
      BY <3>3, <3>5, SizesAssumption
    <3>7. x * BlockSize < q * BlockSize
      BY <3>2, <3>3, <3>4, <3>6
    <3>8. x < q
      BY <3>5, <3>7, LtQuotient, SizesAssumption
    <3>. QED BY <1>1, <3>1, <3>5, <3>8
  <2>. QED BY <2>1, <2>2 DEF N
<1>. QED BY <1>2, <1>3

\* The blocks the loop was given are those that AllocEach describes.
NewPart(n, N, q) == [x \in N .. q - 1 |-> n.ptrs[x]]

Given(n, N, q) ==
  \A x \in N .. q - 1 : /\ n.ptrs[x] \in FreeBits(map0)
                        /\ n.ptrs[x] = alloc_blk(bit_set(map0, PtrsFrom(n, N, x)))

LEMMA GivenEach ==
  ASSUME NEW n, NEW N \in Nat, NEW q \in Nat, Given(n, N, q)
  PROVE  LET g == NewPart(n, N, q)
         IN  /\ g \in F!AllocEach(N .. q - 1)
             /\ {g[x] : x \in N .. q - 1} = PtrsFrom(n, N, q)
<1> DEFINE Q == N .. q - 1
<1>0. PICK g : g = NewPart(n, N, q) /\ g = [x \in Q |-> n.ptrs[x]]
  BY DEF NewPart
<1>1. g \in [Q -> FreeBits(map0)] /\ {g[x] : x \in Q} = PtrsFrom(n, N, q)
  BY <1>0 DEF PtrsFrom, Given
<1>2. ASSUME NEW x \in Q
      PROVE  g[x] = F!alloc_blk(F!bit_set(map0, {g[r] : r \in {y \in Q : y < x}}))
  <2>1. {y \in Q : y < x} = N .. x - 1
    OBVIOUS
  <2>2. \A r \in N .. x - 1 : g[r] = n.ptrs[r]
    BY <1>0
  <2>3. {g[r] : r \in N .. x - 1} = PtrsFrom(n, N, x)
    BY <2>2 DEF PtrsFrom
  <2>4. g[x] = alloc_blk(bit_set(map0, PtrsFrom(n, N, x)))
    BY <1>0 DEF Given
  <2> HIDE DEF Q
  <2>. QED BY ONLY <2>1, <2>3, <2>4, SameOperators DEF F!bit_set, bit_set
<1> HIDE DEF Q
<1>3. g \in F!AllocEach(Q)
  BY ONLY <1>1, <1>2, SameOperators DEF F!AllocEach
<1>. QED BY <1>0, <1>1, <1>3 DEF Q

\* The copy of the inode, with its new pointers, is the inode that fs_write
\* makes of the one on the disk.
LEMMA WriteInodeSeen ==
  ASSUME StepInv, Past, Writing, NEW now \in Times, write_inode(now)
  PROVE  Whole /\ req' = req
<1> DEFINE i   == op.i
           q   == op.q
           in  == disk0[i]
           N   == nblocks(in)
           k   == op.node
           s   == IF offset + length > in.size THEN offset + length ELSE in.size
           nd  == [k EXCEPT !.size = s, !.mtime = now]
           New == Unfilled(offset, length, N)
           g   == NewPart(k, N, q)
           T   == Touched(offset, length)
           B   == {k.ptrs[x] : x \in T}
           d   == [b \in Blk |-> IF b = i THEN nd ELSE IF b \in B THEN Data ELSE disk0[b]]
<1>1. op # Idle /\ op.pc = "loop" /\ op.nread = length /\ End(length) /\ req' = req
  BY DEF write_inode, At
<1>2. /\ up = "mounted" /\ req[1] = "write" /\ WriteOf(req, i)
      /\ WriteAt(op, req, map, disk, map0, disk0)
      /\ in \in Inode /\ N \in Nat /\ N <= NumPtrs /\ q \in Nat /\ disk[i] = in /\ i \in Blk
      /\ k \in Nodes /\ N = FirstNew
  BY <1>1, WriteNow
<1>3. /\ offset \in Nat /\ length \in Nat /\ op.block_offset \in Nat /\ disk \in [Blk -> Content]
  BY <1>1, WritingFacts DEF Sound, SoundImage
<1>4. /\ k = [in EXCEPT !.ptrs = k.ptrs] /\ k.size = in.size
      /\ \A x \in 0 .. N - 1 : disk0[in.ptrs[x]] = Data
      /\ \A b \in Blk : disk[b] = IF b \in PtrsFrom(k, N, q) THEN Data ELSE disk0[b]
      /\ \A x \in N .. q - 1 :
           /\ k.ptrs[x] \in FreeBits(map0)
           /\ k.ptrs[x] = alloc_blk(bit_set(map0, PtrsFrom(k, N, x)))
           /\ x * BlockSize < offset + length
      /\ map = bit_set(map0, PtrsFrom(k, N, q))
  BY <1>1, <1>2 DEF WriteAt, offset, Writing, NodeRead
<1>5. map' = map /\ disk' = [disk EXCEPT ![i] = nd]
  <2>1. block_write(i, [k EXCEPT !.size = IF offset + length > k.size THEN offset + length ELSE k.size,
                                 !.mtime = now])
    BY DEF write_inode
  <2>. QED BY <1>4, <2>1 DEF block_write
<1>6. New = N .. q - 1
  <2>1. offset <= in.size /\ Reached(offset, length, q, op.block_offset, length)
    BY <1>1, <1>2 DEF Writing, Position
  <2>2. \A x \in N .. q - 1 : x * BlockSize < offset + length
    BY <1>4
  <2>. QED BY <1>2, <1>3, <2>1, <2>2, AllAssigned
<1>7. g \in F!AllocEach(New) /\ {g[x] : x \in New} = PtrsFrom(k, N, q)
  <2> HIDE DEF N
  <2>1. Given(k, N, q)
    BY <1>4 DEF Given
  <2>2. N \in Nat /\ q \in Nat
    BY <1>2
  <2> HIDE DEF q, k, New
  <2>3. /\ g \in F!AllocEach(N .. q - 1) /\ {g[x] : x \in N .. q - 1} = PtrsFrom(k, N, q)
    BY ONLY <2>1, <2>2, GivenEach
  <2>. QED BY ONLY <1>6, <2>3
<1>8. k.ptrs = [x \in PtrIdx |-> IF x \in New THEN g[x] ELSE in.ptrs[x]]
  <2>1. k.ptrs \in [PtrIdx -> Blk \cup {NoPtr, -ENOSPC}]
    BY <1>2 DEF Nodes
  <2>2. ASSUME NEW x \in PtrIdx, x \notin New PROVE k.ptrs[x] = in.ptrs[x]
    <3> HIDE DEF N
    <3>1. x < N \/ x > q \/ x = q
      BY <1>2, <1>6, <2>2 DEF PtrIdx
    <3>. QED BY <1>1, <1>2, <3>1 DEF Writing, NodeRead
  <2>3. \A x \in New : g[x] = k.ptrs[x]
    BY <1>6 DEF NewPart
  <2> HIDE DEF g, New
  <2>. QED BY <2>1, <2>2, <2>3
<1>9. \A x \in T : (x \in New \/ (x \in 0 .. N - 1 /\ k.ptrs[x] = in.ptrs[x]))
  <2> SUFFICES ASSUME NEW x \in T, x \notin New
               PROVE  x \in 0 .. N - 1 /\ k.ptrs[x] = in.ptrs[x]
    OBVIOUS
  <2>1. x \in Nat
    <3> DEFINE e == offset + length - 1
    <3>1. length # 0
      BY DEF Touched
    <3>2. e \in Nat
      BY <1>3, <3>1
    <3>3. e \div BlockSize \in Nat /\ offset \div BlockSize \in Nat
      BY <1>3, <3>2, DivFacts, SizesAssumption
    <3>4. x \in offset \div BlockSize .. e \div BlockSize
      BY <3>1 DEF Touched
    <3>. QED BY <3>3, <3>4
  <2> HIDE DEF N
  <2>2. x < N
    BY <1>2, <2>1 DEF Unfilled
  <2>3. x \in PtrIdx
    BY <1>2, <2>1, <2>2, SizesAssumption DEF PtrIdx
  <2>. QED BY <1>2, <1>8, <2>1, <2>2, <2>3
<1> HIDE DEF nd, New, B, T, N, g
<1>10. disk' = d
  <2>1. ASSUME NEW b \in Blk, b # i
        PROVE  disk[b] = IF b \in B THEN Data ELSE disk0[b]
    <3>1. CASE b \in B
      <4>1. PICK x \in T : b = k.ptrs[x]
        BY <3>1 DEF B
      <4>2. CASE x \in New
        <5>1. b \in PtrsFrom(k, N, q)
          BY <1>6, <4>1, <4>2 DEF PtrsFrom
        <5>. QED BY <1>4, <3>1, <5>1
      <4>3. CASE x \in 0 .. N - 1 /\ k.ptrs[x] = in.ptrs[x]
        <5>1. disk0[b] = Data
          BY <1>4, <4>1, <4>3
        <5>. QED BY <1>4, <3>1, <5>1
      <4>. QED BY <1>9, <4>2, <4>3
    <3>2. CASE b \notin B
      <4>1. New \subseteq T
        BY DEF New, Unfilled, T
      <4>2. b \notin PtrsFrom(k, N, q)
        BY <1>6, <3>2, <4>1 DEF PtrsFrom, B
      <4>. QED BY <1>4, <3>2, <4>2
    <3>. QED BY <3>1, <3>2
  <2>. QED BY <1>2, <1>3, <1>5, <2>1
<1>11. op' = Idle /\ F!Return(map, d, length)
  BY <1>1, <1>5, <1>10, EndSeen
<1>12. /\ F!path2inum(req[2]) = i /\ F!write_allowed(req[2], offset, length)
       /\ F!Touched(offset, length) = T /\ F!PtrIdx = PtrIdx /\ F!Blk = Blk /\ F!Data = Data
       /\ {x \in T : x >= F!nblocks(in)} = New
  BY <1>2, SameOperators, SameConstants DEF WriteOf, offset, length, T, New, Unfilled, N
<1>13. nd = [in EXCEPT !.ptrs = k.ptrs,
                       !.size = IF offset + length > @ THEN offset + length ELSE @,
                       !.mtime = now]
  BY <1>2, <1>4 DEF nd, Inode
<1>14. F!bit_set(map0, {g[x] : x \in New}) = map
  BY <1>4, <1>7 DEF F!bit_set, bit_set
<1>15. F!fs_write(req[2], offset, length, now)
  <2> DEFINE Q    == {x \in F!Touched(offset, length) : x >= F!nblocks(disk0[F!path2inum(req[2])])}
             ptrs == [x \in F!PtrIdx |-> IF x \in Q THEN g[x] ELSE in.ptrs[x]]
             C    == {ptrs[x] : x \in F!Touched(offset, length)}
             node == [in EXCEPT !.ptrs = ptrs,
                                !.size = IF offset + length > @ THEN offset + length ELSE @,
                                !.mtime = now]
             e    == [b \in F!Blk |-> IF b = i THEN node ELSE IF b \in C THEN F!Data ELSE disk0[b]]
  <2>1. Q = New
    BY <1>12
  <2>2. ptrs = k.ptrs
    <3> HIDE DEF Q
    <3>. QED BY <1>8, <1>12, <2>1
  <2>3. C = B
    <3> HIDE DEF ptrs
    <3>. QED BY <1>12, <2>2 DEF B
  <2>4. node = nd
    <3> HIDE DEF ptrs
    <3>. QED BY <1>13, <2>2
  <2>5. e = d
    <3> HIDE DEF C, node
    <3>. QED BY <1>12, <2>3, <2>4
  <2>6. g \in F!AllocEach(Q) /\ F!Return(F!bit_set(map0, {g[x] : x \in Q}), e, length)
    <3> HIDE DEF Q, e, d
    <3>. QED BY <1>7, <1>11, <1>14, <2>1, <2>5
  <2>7. /\ up = "mounted" /\ F!write_allowed(req[2], offset, length) /\ i = F!path2inum(req[2])
    BY <1>2, <1>12
  <2>. QED BY ONLY <2>6, <2>7, ZenonT(60) DEF F!fs_write
<1>16. \E t \in Times : F!fs_write(req[2], req[3], req[4], t)
  BY <1>15 DEF offset, length
<1>. QED BY <1>1, <1>2, <1>11, <1>16, AtomicCases DEF Whole

-----------------------------------------------------------------------------
(***************************************************************************)
(* All of it.                                                              *)
(***************************************************************************)
LEMMA StepSeen ==
  ASSUME StepInv, Past, Step
  PROVE  Unseen \/ Whole
<1>1. CASE alloc_inode
  BY <1>1, StageOf, AllocInodeSeen DEF alloc_inode, At
<1>2. CASE alloc_dirs
  BY <1>2, StageOf, AllocDirsSeen DEF alloc_dirs, At
<1>3. CASE write_new_dirs
  BY <1>3, StageOf, WriteNewDirsSeen DEF write_new_dirs, At
<1>4. CASE write_new_inode
  BY <1>4, StageOf, WriteNewInodeSeen DEF write_new_inode, At
<1>5. CASE write_entry
  BY <1>5, StageOf, WriteEntrySeen DEF write_entry, At
<1>6. CASE write_parent
  BY <1>6, StageOf, WriteParentSeen DEF write_parent, At
<1>7. CASE free_block
  BY <1>7, StageOf, FreeBlockSeen DEF free_block, At
<1>8. CASE free_inode
  BY <1>8, StageOf, FreeInodeSeen DEF free_inode, At
<1>9. CASE clear_entry
  <2>1. At("clear")
    BY <1>9, Zenon DEF clear_entry
  <2>. QED BY <1>9, <2>1, StageOf, ClearEntrySeen DEF At
<1>10. ASSUME NEW now \in Times, stamp_parent(now)
       PROVE  Whole
  BY <1>10, StageOf, StampParentSeen DEF stamp_parent, At
<1>11. CASE truncate_inode
  BY <1>11, StageOf, TruncateInodeSeen DEF truncate_inode, At
<1>12. CASE alloc_data
  BY <1>12, StageOf, AllocDataSeen DEF alloc_data, InLoop, At
<1>13. CASE write_data
  BY <1>13, StageOf, WriteDataSeen DEF write_data, InLoop, At
<1>14. ASSUME NEW now \in Times, write_inode(now)
       PROVE  Whole
  <2>1. At("loop")
    BY <1>14 DEF write_inode
  <2>. QED BY <1>14, <2>1, StageOf, WriteInodeSeen DEF At
<1>. QED BY <1>1, <1>2, <1>3, <1>4, <1>5, <1>6, <1>7, <1>8, <1>9, <1>10, <1>11, <1>12,
            <1>13, <1>14 DEF Step

LEMMA RequestSeen ==
  ASSUME StepInv, Request, ~strayed'
  PROVE  Unseen \/ Whole
<1>1. ASSUME NEW p \in Paths, NEW perm \in Perms, NEW now \in Times,
             create_begin(p, perm, now) \/ mkdir_begin(p, perm, now)
      PROVE  Unseen \/ Whole
  BY <1>1, CreateSeen, MkdirSeen
<1>2. ASSUME NEW p \in Paths \ {<<>>}, unlink_begin(p) \/ rmdir_begin(p)
      PROVE  Unseen \/ Whole
  BY <1>2, UnlinkSeen, RmdirSeen
<1>3. ASSUME NEW p \in Paths, NEW len \in {0} \cup Lengths, truncate_begin(p, len)
      PROVE  Unseen \/ Whole
  BY <1>3, TruncateSeen
<1>4. ASSUME NEW p \in Paths, NEW off \in Offsets, NEW len \in Lengths,
             write_begin(p, off, len)
      PROVE  Unseen \/ Whole
  BY <1>4, WriteSeen
<1>5. ASSUME NEW src \in Paths, NEW dst \in Paths, rename(src, dst)
      PROVE  Unseen \/ Whole
  BY <1>5, RenameSeen
<1>6. ASSUME NEW p \in Paths, NEW perm \in Perms, chmod(p, perm)
      PROVE  Unseen \/ Whole
  BY <1>6, ChmodSeen
<1>7. ASSUME NEW p \in Paths, NEW t \in Times, utime(p, t)
      PROVE  Unseen \/ Whole
  BY <1>7, UtimeSeen
<1>. QED BY <1>1, <1>2, <1>3, <1>4, <1>5, <1>6, <1>7 DEF Request

\* When no handler runs there is nothing to remember.
LEMMA IdlePast == op' = Idle => Past'
BY DEF Past, Idle

LEMMA StutterPast ==
  ASSUME Past, UNCHANGED svars
  PROVE  Past'
<1>1. /\ map' = map /\ disk' = disk /\ up' = up /\ op' = op /\ req' = req
      /\ map0' = map0 /\ disk0' = disk0
  BY DEF svars
<1>2. CASE op = Idle
  BY <1>1, <1>2, IdlePast
<1>3. CASE op # Idle
  <2>1. /\ \A r, par : MakingOf(r, par)' = MakingOf(r, par)
        /\ \A r, i, par : RemovalOf(r, i, par)' = RemovalOf(r, i, par)
        /\ \A r, i : WriteOf(r, i)' = WriteOf(r, i)
    BY <1>1, OfStays
  <2>2. ASSUME req[1] \in Making PROVE Past'
    BY <1>1, <1>3, <2>1, <2>2, MakingPast DEF Past
  <2>3. ASSUME req[1] \in Removing PROVE Past'
    BY <1>1, <1>3, <2>1, <2>3, RemovalPast DEF Past
  <2>4. ASSUME req[1] = "write" PROVE Past'
    BY <1>1, <1>3, <2>1, <2>4, WritePast DEF Past
  <2>5. ASSUME req[1] \notin Making, req[1] \notin Removing, req[1] # "write" PROVE Past'
    BY <1>1, <1>3, <2>5 DEF Past, Making, Removing
  <2>. QED BY <2>2, <2>3, <2>4, <2>5
<1>. QED BY <1>2, <1>3

\* A step of FsSteps as Fs5600 sees it.
LEMMA NextSeen ==
  ASSUME StepInv, Past, [SNext]_svars, ~strayed'
  PROVE  Past' /\ [Crash \/ F!fs_init \/ Atomic(req')]_F!vars
<1>1. ASSUME Unseen \/ Whole
      PROVE  Past' /\ [Crash \/ F!fs_init \/ Atomic(req')]_F!vars
  BY <1>1, IdlePast DEF Unseen, Whole, F!vars
<1>2. CASE init
  BY <1>2, InitSeen
<1>3. CASE Request
  BY <1>1, <1>3, RequestSeen
<1>4. CASE Step
  BY <1>1, <1>4, StepSeen
<1>5. CASE Crash
  BY <1>5, IdlePast DEF Crash
<1>6. CASE UNCHANGED svars
  BY <1>6, StutterPast DEF svars, F!vars
<1>. QED BY <1>2, <1>3, <1>4, <1>5, <1>6 DEF SNext

LEMMA FirstSeen ==
  ASSUME SInit
  PROVE  Past /\ F!Init
<1>1. /\ Init /\ op = Idle /\ map0 = map /\ disk0 = disk
  BY DEF SInit
<1>2. \A perm, t : F!Image(perm, t) = Image(perm, t)
  <2>1. /\ F!Super = Super /\ F!BlockMap = BlockMap /\ F!Zeros = Zeros /\ F!EmptyDir = EmptyDir
        /\ F!Blk = Blk /\ F!RootInum = RootInum
    BY SameConstants DEF F!Super, Super, F!BlockMap, BlockMap, F!Zeros, Zeros
  <2>. QED BY <2>1, SameNewInode DEF F!Image, Image
<1>3. F!Init
  BY <1>1, <1>2, SameConstants DEF F!Init, Init
<1>. QED BY <1>1, <1>3 DEF Past, Idle

\* The history of the running handler, in every reachable state, until a
\* caller strays.
THEOREM PastHolds == SSpec => [](strayed \/ (StepInv /\ KeepInv /\ Past))
<1>1. ASSUME strayed \/ (StepInv /\ KeepInv /\ Past), [SNext]_svars
      PROVE  strayed' \/ (StepInv /\ KeepInv /\ Past)'
  BY <1>1, StrayedStays, SNextKeeps, NextSeen
<1>2. SInit => strayed \/ (StepInv /\ KeepInv /\ Past)
  BY FirstSeen, StepInit
<1>. QED BY <1>1, <1>2, PTL DEF SSpec

\* A handler that writes block by block, with copies of inodes it read at its
\* beginning, is atomic for every caller: whatever a request that returns or
\* aborts has done to the image, Fs5600 does in one step.  This lasts until,
\* after a crash in a removal, a request other than that removal is taken.
THEOREM StepsImplement == SSpec => ImplementsFs5600
<1>1. ASSUME strayed \/ (StepInv /\ KeepInv /\ Past), [SNext]_svars
      PROVE  [~strayed' => (Crash \/ F!fs_init \/ Atomic(req'))]_F!vars
  BY <1>1, StrayedStays, NextSeen
<1>2. SInit => F!Init
  BY FirstSeen
<1>. QED BY <1>1, <1>2, PastHolds, PTL DEF SSpec, ImplementsFs5600

-----------------------------------------------------------------------------
(***************************************************************************)
(* Two disks on which path2inum and getattr say the same.                  *)
(***************************************************************************)
SameNode(d, e, i) ==
  /\ e[i].type = d[i].type /\ e[i].perm = d[i].perm
  /\ e[i].size = d[i].size /\ e[i].ctime = d[i].ctime
  /\ d[i].type = "file" => e[i].mtime = d[i].mtime
  /\ d[i].type = "dir" =>
       e[i].ptrs[0] = d[i].ptrs[0] /\ e[d[i].ptrs[0]] = d[d[i].ptrs[0]]

Alike(d, e) == \A i \in Linked(d) : SameNode(d, e, i)

LEMMA SameHits ==
  ASSUME NEW c, SameNode(disk, disk', c), S_ISDIR(c)
  PROVE  Dirs(c)' = Dirs(c) /\ \A n : Hits(c, n)' = Hits(c, n)
<1>1. Dirs(c)' = Dirs(c)
  BY DEF SameNode, S_ISDIR, Dirs, DirBlkOf
<1>2. ASSUME NEW n PROVE Hits(c, n)' = Hits(c, n)
  BY <1>1 DEF Hits, Slots
<1>. QED BY <1>1, <1>2

\* One turn of path2inum, from wherever the turn before may have led.
LEMMA SameTurn ==
  ASSUME Walkable, Alike(disk, disk'), NEW p \in Paths, NEW j \in 1 .. Len(p),
         NEW c, c \in Missing \/ (c \in Linked(disk) /\ S_ISDIR(c))
  PROVE  walk(p, j, c)' = walk(p, j, c)
<1>1. CASE c \in Missing
  BY <1>1 DEF walk, Missing, ENOENT, ENOTDIR
<1>2. CASE c \in Linked(disk) /\ S_ISDIR(c)
  <2> DEFINE n == p[j]
             H == Hits(c, n)
             i == Dirs(c)[Min(H)].inode
  <2>1. SameNode(disk, disk', c) /\ ~(c < 0)
    BY <1>2, LinkedNode DEF Alike
  <2>2. Dirs(c)' = Dirs(c) /\ Hits(c, n)' = Hits(c, n)
    BY <1>2, <2>1, SameHits
  <2>3. disk'[c].size = disk[c].size
    BY <2>1 DEF SameNode
  <2>4. ASSUME H # {} PROVE S_ISDIR(i)' = S_ISDIR(i)
    <3>1. Min(H) \in Slots /\ Dirs(c)[Min(H)].valid
      BY <2>4, FirstHit
    <3>2. i \in Linked(disk)
      BY <1>2, <3>1, EntryLinked
    <3>. QED BY <2>2, <3>2 DEF Alike, SameNode, S_ISDIR
  <2>. QED BY <2>1, <2>2, <2>3, <2>4 DEF walk, ENOENT, ENOTDIR
<1>. QED BY <1>1, <1>2

\* Two functions that path2inum may have computed are one.
LEMMA OneWalk ==
  ASSUME NEW p, NEW n \in Nat, NEW v, NEW w, IsWalk(p, n, v)', IsWalk(p, n, w)'
  PROVE  v = w
<1> DEFINE T == {j \in Nat : j <= n => v[j] = w[j]}
<1>1. /\ v = [j \in 0 .. n |-> IF j = 0 THEN RootInum ELSE walk(p, j, v[j - 1])']
      /\ w = [j \in 0 .. n |-> IF j = 0 THEN RootInum ELSE walk(p, j, w[j - 1])']
  BY DEF IsWalk, RootInum
<1>2. /\ v[0] = RootInum /\ w[0] = RootInum
      /\ \A j \in 1 .. n : v[j] = walk(p, j, v[j - 1])' /\ w[j] = walk(p, j, w[j - 1])'
  <2>1. \A j \in 0 .. n :
          /\ v[j] = IF j = 0 THEN RootInum ELSE walk(p, j, v[j - 1])'
          /\ w[j] = IF j = 0 THEN RootInum ELSE walk(p, j, w[j - 1])'
    BY <1>1, Zenon
  <2>. QED BY <2>1
<1>3. 0 \in T
  BY <1>2
<1>4. ASSUME NEW j \in Nat, j \in T PROVE j + 1 \in T
  <2> SUFFICES ASSUME j + 1 <= n PROVE v[j + 1] = w[j + 1]
    OBVIOUS
  <2>1. v[j] = w[j] /\ j + 1 \in 1 .. n /\ (j + 1) - 1 = j
    BY <1>4
  <2>. QED BY <1>2, <2>1
<1>5. Nat \subseteq T
  <2> HIDE DEF T
  <2>. QED BY <1>3, <1>4, SetInduction
<1>6. \A j \in 0 .. n : v[j] = w[j]
  BY <1>5
<1>7. v = [j \in 0 .. n |-> v[j]] /\ w = [j \in 0 .. n |-> w[j]]
  BY <1>1
<1>. QED BY <1>6, <1>7

LEMMA SameFound ==
  ASSUME Walkable, Alike(disk, disk'), NEW p \in Paths
  PROVE  path2inum(p)' = path2inum(p)
<1> DEFINE n == Len(p)
<1>1. n \in Nat
  BY PathTypes
<1>2. PICK g : g = visited(p)
  OBVIOUS
<1>3. IsWalk(p, n, g) /\ path2inum(p) = g[n]
  BY <1>1, <1>2, WalkExists, Visited DEF visited
<1>4. \A j \in 0 .. n : Seen(p, j, g[j])
  BY <1>2, SeenAll
<1>5. ASSUME NEW j \in 1 .. n PROVE walk(p, j, g[j - 1])' = walk(p, j, g[j - 1])
  <2>1. j - 1 \in 0 .. n /\ j - 1 < n
    BY <1>1
  <2>2. g[j - 1] \in Missing \/ (g[j - 1] \in Linked(disk) /\ S_ISDIR(g[j - 1]))
    BY <1>4, <2>1 DEF Seen
  <2>. QED BY <2>2, SameTurn
<1>6. IsWalk(p, n, g)'
  <2>1. g = [j \in 0 .. n |-> IF j = 0 THEN RootInum ELSE walk(p, j, g[j - 1])]
    BY <1>3 DEF IsWalk
  <2>2. \A j \in 0 .. n : (IF j = 0 THEN RootInum ELSE walk(p, j, g[j - 1])') =
                          (IF j = 0 THEN RootInum ELSE walk(p, j, g[j - 1]))
    BY <1>1, <1>5
  <2>3. g = [j \in 0 .. n |-> IF j = 0 THEN RootInum ELSE walk(p, j, g[j - 1])']
    BY <2>1, <2>2
  <2>. QED BY <2>3 DEF IsWalk, RootInum
<1>7. path2inum(p)' = (CHOOSE w : IsWalk(p, n, w)')[n]
  BY DEF path2inum, IsWalk, RootInum
<1>8. (CHOOSE w : IsWalk(p, n, w)') = g
  BY <1>1, <1>6, OneWalk
<1>. QED BY <1>3, <1>7, <1>8

LEMMA SameVisible ==
  ASSUME Walkable, Alike(disk, disk')
  PROVE  Visible' = Visible
<1> DEFINE A(in) == <<in.type, in.perm, in.size, in.ctime,
                      IF in.type = "file" THEN in.mtime ELSE 0>>
           P == {p \in Paths : Exists(p)}
<1>1. ASSUME NEW p \in Paths PROVE Exists(p)' = Exists(p)
  BY <1>1, SameFound DEF Exists
<1>2. ASSUME NEW p \in P PROVE A(disk[path2inum(p)])' = A(disk[path2inum(p)])
  <2>1. path2inum(p) \in Linked(disk)
    BY <1>2, ExistsLinked
  <2>2. path2inum(p)' = path2inum(p)
    BY <1>2, SameFound
  <2>3. SameNode(disk, disk', path2inum(p))
    BY <2>1 DEF Alike
  <2>. QED BY <2>2, <2>3 DEF SameNode
<1>3. P' = P
  BY <1>1
<1>. QED BY <1>2, <1>3 DEF Visible

-----------------------------------------------------------------------------
(***************************************************************************)
(* Block writes that callers do not see.                                   *)
(***************************************************************************)
\* To a block that serves nobody.
LEMMA SpareUnseen ==
  ASSUME Sound, NEW S, Held(map, disk, S), NEW b \in S, NEW c, block_write(b, c)
  PROVE  Visible' = Visible
<1>1. \A x \in Blk : x # b => disk'[x] = disk[x]
  BY DEF Sound, SoundImage, block_write
<1>2. ASSUME NEW i \in Linked(disk) PROVE SameNode(disk, disk', i)
  <2>1. i \in Blk /\ b \notin Owned(disk, i)
    BY LinkedNode DEF Held, Spare
  <2>2. disk'[i] = disk[i]
    BY <1>1, <2>1 DEF Owned
  <2>3. ASSUME disk[i].type = "dir" PROVE disk'[disk[i].ptrs[0]] = disk[disk[i].ptrs[0]]
    <3>1. disk[i].ptrs[0] \in Owned(disk, i)
      BY <2>3 DEF Owned, UsedPtrs
    <3>2. disk[i].ptrs[0] \in Blk
      BY <2>3, DirNode DEF S_ISDIR, DirBlkOf
    <3>. QED BY <1>1, <2>1, <3>1, <3>2
  <2>. QED BY <2>2, <2>3 DEF SameNode
<1>. QED BY <1>2, SameVisible DEF Alike

\* The time in the inode of a directory.
LEMMA StampUnseen ==
  ASSUME Sound, NEW par \in Linked(disk), S_ISDIR(par), NEW now,
         disk' = [disk EXCEPT ![par] = [disk[par] EXCEPT !.mtime = now]]
  PROVE  Visible' = Visible
<1> DEFINE in == [disk[par] EXCEPT !.mtime = now]
<1>1. disk[par] \in Inode /\ par \in Blk /\ disk[par].kind = "inode"
  BY LinkedNode
<1>2. /\ in.type = "dir" /\ in.perm = disk[par].perm /\ in.size = disk[par].size
      /\ in.ctime = disk[par].ctime /\ in.ptrs = disk[par].ptrs
  BY <1>1 DEF Inode, S_ISDIR
<1> HIDE DEF in
<1>3. disk'[par] = in /\ \A x \in Blk : x # par => disk'[x] = disk[x]
  BY <1>1 DEF Sound, SoundImage, in
<1>4. ASSUME NEW i \in Linked(disk) PROVE SameNode(disk, disk', i)
  <2>1. i \in Blk
    BY LinkedNode
  <2>2. ASSUME disk[i].type = "dir" PROVE disk'[disk[i].ptrs[0]] = disk[disk[i].ptrs[0]]
    <3>1. disk[i].ptrs[0] \in Blk /\ disk[disk[i].ptrs[0]].kind = "dir"
      BY <2>2, DirNode DEF S_ISDIR, DirBlkOf
    <3>. QED BY <1>1, <1>3, <3>1
  <2>3. CASE i = par
    BY <1>2, <1>3, <2>2, <2>3 DEF SameNode, S_ISDIR
  <2>4. CASE i # par
    BY <1>3, <2>1, <2>2, <2>4 DEF SameNode
  <2>. QED BY <2>3, <2>4
<1>. QED BY <1>4, SameVisible DEF Alike

LEMMA StillVisible == disk' = disk => Visible' = Visible
BY SamePaths DEF Visible, Exists

\* F sees the same as long as no handler begins or ends.
LEMMA ThenVisible == disk0' = disk0 => F!Visible' = F!Visible
BY SamePathsThen DEF F!Visible, F!Exists

LEMMA NowVisible == disk0 = disk => F!Visible = Visible
<1> SUFFICES ASSUME disk0 = disk PROVE F!Visible = Visible
  OBVIOUS
<1>1. F!Paths = Paths
  BY DEF F!Paths, Paths, F!SeqOf, SeqOf, F!AllNames, AllNames
<1>2. \A p : F!path2inum(p) = path2inum(p)
  BY SamePathsNow
<1>. QED BY <1>1, <1>2 DEF F!Visible, Visible, F!Exists, Exists

-----------------------------------------------------------------------------
(***************************************************************************)
(* The block write that callers see is the entry's in create, mkdir,       *)
(* unlink and rmdir, and the inode's in truncate and write.  Before it     *)
(* they see what was there before the request.                             *)
(***************************************************************************)
Before == (op # Idle /\ op.pc \notin {"parent", "stamp"}) => Visible = F!Visible

LEMMA RestBefore ==
  ASSUME StepInv, op = Idle
  PROVE  Visible = F!Visible
BY NowVisible DEF StepInv, Resting

\* The shapes of a step that keeps this.
LEMMA BeforeGoesOn ==
  ASSUME Before, op # Idle, op.pc \notin {"parent", "stamp"},
         Visible' = Visible, disk0' = disk0
  PROVE  Before'
BY ThenVisible DEF Before

LEMMA BeforeEnds ==
  ASSUME op' = Idle \/ op'.pc \in {"parent", "stamp"}
  PROVE  Before'
BY DEF Before, Idle

\* At most one change, and not before this.
Once == Before' /\ (Visible' # Visible => Visible = F!Visible)

LEMMA MakingOnce ==
  ASSUME StepInv, Before,
         \/ alloc_inode \/ alloc_dirs \/ write_new_dirs \/ write_new_inode
         \/ write_entry \/ write_parent
  PROVE  Once
<1>1. CASE alloc_inode \/ alloc_dirs
  <2>1. /\ op # Idle /\ op.pc \notin {"parent", "stamp"}
        /\ disk' = disk /\ disk0' = disk0
    BY <1>1 DEF alloc_inode, alloc_dirs, At, Marked, Advance, Go
  <2>. QED BY <2>1, StillVisible, BeforeGoesOn DEF Once
<1>2. CASE write_new_dirs
  <2>1. op # Idle /\ op.pc = "dirs" /\ Creating /\ Sound
    BY <1>2, StageOf DEF write_new_dirs, At, Creating
  <2>2. CASE AssertFails(op.node.ptrs[0])
    BY <2>2, StillVisible, BeforeEnds DEF AssertFails, Once
  <2>3. CASE block_write(op.node.ptrs[0], EmptyDir) /\ Advance(op)
    <3>1. Held(map, disk, {op.i, op.node.ptrs[0]})
      BY <2>1, <2>3 DEF block_write, Creating, Allocated
    <3>2. Visible' = Visible
      BY <2>1, <2>3, <3>1, SpareUnseen
    <3>3. disk0' = disk0
      BY <2>3 DEF Advance, Go
    <3>. QED BY <2>1, <3>2, <3>3, BeforeGoesOn DEF Once
  <2>. QED BY <1>2, <2>2, <2>3 DEF write_new_dirs
<1>3. CASE write_new_inode
  <2>1. op # Idle /\ op.pc = "inode" /\ Creating /\ Sound
    BY <1>3, StageOf DEF write_new_inode, At, Creating
  <2>2. CASE AssertFails(op.i)
    BY <2>2, StillVisible, BeforeEnds DEF AssertFails, Once
  <2>3. CASE block_write(op.i, op.node) /\ Advance(op)
    <3>1. Held(map, disk, {op.i})
      BY <2>1, <2>3 DEF block_write, Creating, Allocated
    <3>2. Visible' = Visible
      BY <2>1, <2>3, <3>1, SpareUnseen
    <3>3. disk0' = disk0
      BY <2>3 DEF Advance, Go
    <3>. QED BY <2>1, <3>2, <3>3, BeforeGoesOn DEF Once
  <2>. QED BY <1>3, <2>2, <2>3 DEF write_new_inode
<1>4. CASE write_entry
  <2>1. op # Idle /\ op.pc = "entry" /\ Creating /\ op \in Locals /\ req[1] \in Making
    BY <1>4, StageOf DEF write_entry, At, Creating, StepInv
  <2>2. op' = Idle \/ Advance(op)
    BY <1>4 DEF write_entry, Refuse, End
  <2>3. Advance(op) => op'.pc = "parent"
    <3>1. "parent" \in Stages
      BY DEF Stages
    <3>. QED BY <2>1, <3>1, AfterMaking, SetPc DEF Advance, Go
  <2>. QED BY <2>1, <2>2, <2>3, BeforeEnds DEF Before, Once
<1>5. CASE write_parent
  <2>1. Creating
    BY <1>5, StageOf DEF write_parent, At
  <2>2. disk' = disk /\ op' = Idle
    BY <1>5, <2>1 DEF write_parent, block_write, End, Creating, ParentRead, Sound, SoundImage
  <2>. QED BY <2>2, StillVisible, BeforeEnds DEF Once
<1>. QED BY <1>1, <1>2, <1>3, <1>4, <1>5

LEMMA RemovalOnce ==
  ASSUME StepInv, Before,
         \/ free_block \/ free_inode \/ clear_entry \/ truncate_inode
         \/ \E now \in Times : stamp_parent(now)
  PROVE  Once
<1>1. CASE free_block \/ free_inode
  <2>1. /\ op # Idle /\ op.pc \notin {"parent", "stamp"}
        /\ disk' = disk /\ disk0' = disk0
    BY <1>1 DEF free_block, free_inode, At, Go
  <2>. QED BY <2>1, StillVisible, BeforeGoesOn DEF Once
<1>2. CASE clear_entry
  <2>1. At("clear") /\ op' = [op EXCEPT !.pc = "stamp"]
    BY <1>2, Zenon DEF clear_entry, Go
  <2>2. op # Idle /\ op.pc = "clear" /\ op \in Locals
    BY <2>1 DEF At, StepInv
  <2>3. op'.pc = "stamp"
    <3>1. "stamp" \in Stages
      BY DEF Stages
    <3>. QED BY <2>1, <2>2, <3>1, SetPc
  <2>. QED BY <2>2, <2>3, BeforeEnds DEF Before, Once
<1>3. CASE truncate_inode
  BY <1>3, BeforeEnds DEF truncate_inode, At, End, Before, Once
<1>4. ASSUME NEW now \in Times, stamp_parent(now) PROVE Once
  <2>1. Stamping
    BY <1>4, StageOf DEF stamp_parent, At
  <2>2. /\ Sound /\ op.par \in Linked(disk) /\ S_ISDIR(op.par)
        /\ disk' = [disk EXCEPT ![op.par] = [disk[op.par] EXCEPT !.mtime = now]]
        /\ op' = Idle
    BY <1>4, <2>1 DEF stamp_parent, block_write, End, Stamping, ParentRead
  <2>3. Visible' = Visible
    BY <2>2, StampUnseen
  <2>. QED BY <2>2, <2>3, BeforeEnds DEF Once
<1>. QED BY <1>1, <1>2, <1>3, <1>4

LEMMA WriteOnce ==
  ASSUME StepInv, Before,
         alloc_data \/ write_data \/ \E now \in Times : write_inode(now)
  PROVE  Once
<1>1. CASE alloc_data
  <2>1. /\ op # Idle /\ op.pc \notin {"parent", "stamp"}
        /\ disk' = disk /\ disk0' = disk0
    BY <1>1 DEF alloc_data, InLoop, At, Marked, Go
  <2>. QED BY <2>1, StillVisible, BeforeGoesOn DEF Once
<1>2. CASE write_data
  <2> DEFINE lba == op.node.ptrs[op.q]
  <2>1. /\ op # Idle /\ Writing
        /\ op.pc = "data" \/ (op.pc = "loop" /\ op.nread < length /\ op.q < nblocks(op.node))
    BY <1>2, StageOf DEF write_data, InLoop, At
  <2>2. AssertFails(lba) \/ (block_write(lba, Data) /\ disk0' = disk0)
    BY <1>2 DEF write_data, Go
  <2>3. CASE AssertFails(lba)
    BY <2>3, StillVisible, BeforeEnds DEF AssertFails, Once
  <2>4. CASE block_write(lba, Data) /\ disk0' = disk0
    <3>1. Sound /\ op.i \in Linked(disk) /\ disk[op.i].type = "file"
      BY <2>1, WritingFacts
    <3>2. ASSUME op.pc = "data" PROVE Visible' = Visible
      <4>1. Held(map, disk, NewBlks \cup {lba})
        BY <2>1, <2>4, <3>2 DEF Writing, block_write
      <4>. QED BY <2>4, <3>1, <4>1, SpareUnseen
    <3>3. ASSUME op.pc = "loop", op.nread < length, op.q < nblocks(op.node)
          PROVE  Visible' = Visible
      <4>1. /\ nblocks(op.node) = FirstNew /\ op.q \in PtrIdx /\ op.q \in Nat
            /\ FirstNew \in Nat
        BY <2>1, <3>3, WritingFacts
      <4>2. lba = disk[op.i].ptrs[op.q] /\ op.q \in UsedPtrs(disk[op.i])
        BY <2>1, <3>1, <3>3, <4>1 DEF Writing, NodeRead, UsedPtrs, FirstNew
      <4>3. lba \in Blk /\ disk[lba].kind = "data" /\ disk \in [Blk -> Content]
        BY <3>1, <4>2 DEF Sound, SoundImage, AllSound, InodeSound
      <4>4. disk[lba] = Data
        BY <4>3, ContentKinds
      <4>5. disk' = disk
        BY <2>4, <4>3, <4>4 DEF block_write
      <4>. QED BY <4>5, StillVisible
    <3>4. Visible' = Visible
      BY <2>1, <3>2, <3>3
    <3>. QED BY <2>1, <2>4, <3>4, BeforeGoesOn DEF Once
  <2>. QED BY <2>2, <2>3, <2>4
<1>3. ASSUME NEW now \in Times, write_inode(now) PROVE Once
  BY <1>3, BeforeEnds DEF write_inode, At, End, Before, Once
<1>. QED BY <1>1, <1>2, <1>3

\* A request changes what callers see only if it is over.
LEMMA RequestOnce ==
  ASSUME StepInv, Request
  PROVE  Once
<1>1. op = Idle
  BY DEF Request, create_begin, mkdir_begin, unlink_begin, rmdir_begin, truncate_begin,
         write_begin, rename, chmod, utime, Take
<1>2. op' = Idle \/ (disk' = disk /\ disk0' = disk0)
  BY <1>1 DEF Request, create_begin, mkdir_begin, unlink_begin, rmdir_begin, truncate_begin,
         write_begin, rename, chmod, utime, Refuse, End, Begin, Sync
<1>3. Visible = F!Visible
  BY <1>1, RestBefore
<1>4. CASE op' = Idle
  BY <1>3, <1>4, BeforeEnds DEF Once
<1>5. CASE disk' = disk /\ disk0' = disk0
  BY <1>3, <1>5, StillVisible, ThenVisible DEF Before, Once
<1>. QED BY <1>2, <1>4, <1>5

LEMMA NextOnce ==
  ASSUME StepInv, Past, Before, [SNext]_svars
  PROVE  Once
<1>1. CASE init
  <2>1. op = Idle /\ op' = Idle
    BY <1>1 DEF init, fs_init, Sync, Past
  <2>. QED BY <2>1, RestBefore, BeforeEnds DEF Once
<1>2. CASE Request
  BY <1>2, RequestOnce
<1>3. CASE Step
  BY <1>3, MakingOnce, RemovalOnce, WriteOnce DEF Step
<1>4. CASE Crash
  BY <1>4, StillVisible, BeforeEnds DEF Crash, Once
<1>5. CASE UNCHANGED svars
  BY <1>5, StillVisible, ThenVisible DEF svars, Before, Once
<1>. QED BY <1>1, <1>2, <1>3, <1>4, <1>5 DEF SNext

\* Whatever block write a crash comes after, callers find the names and the
\* attributes of before the request or those that the whole request leaves
\* (the mtime of directories apart): the writes before the one that counts are
\* to blocks no path leads to, and the one after it stamps a directory.  This
\* lasts until, after a crash in a removal, a request other than that removal
\* is taken.
THEOREM ChangeIsAtomic == SSpec => ChangesAtOnce
<1> DEFINE Good == strayed \/ (StepInv /\ KeepInv /\ Past)
<1>1. SInit => strayed \/ Before
  BY DEF SInit, Before
<1>2. ASSUME Good, strayed \/ Before, [SNext]_svars
      PROVE  strayed' \/ Before'
  BY <1>2, StrayedStays, NextOnce DEF Once
<1>3. ASSUME Good, strayed \/ Before, [SNext]_svars
      PROVE  [~strayed' /\ Visible' # Visible => Visible = F!Visible]_disk
  BY <1>3, StrayedStays, NextOnce DEF Once
<1>4. SSpec => []Good
  BY PastHolds
<1> HIDE DEF Good
<1>. QED BY <1>1, <1>2, <1>3, <1>4, PTL DEF SSpec, ChangesAtOnce
=============================================================================
