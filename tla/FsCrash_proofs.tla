--------------------------- MODULE FsCrash_proofs ---------------------------
(***************************************************************************)
(* Theorems about FsCrash, for every value of the constants: whatever      *)
(* block write a crash comes after, the image is sound but for what was    *)
(* being removed, and a removal leaks nothing.                             *)
(***************************************************************************)
EXTENDS FsCrash, Fs5600_proofs

\* What holds of walkable images is used of sound ones.
USE SoundWalkable

(***************************************************************************)
(* The local variables of a handler that runs.  The pointers of its copy   *)
(* of an inode may hold the error of alloc_blk.                            *)
(***************************************************************************)
Nodes == [kind  : {"inode"},
          type  : FileTypes,
          perm  : Perms,
          ctime : Times,
          mtime : Times,
          size  : 0 .. MaxFile,
          ptrs  : [PtrIdx -> Blk \cup {NoPtr, -ENOSPC}]]

Making  == {"create", "mkdir"}
Stages  == {"alloc", "allocdir", "dirs", "inode", "entry", "parent",
            "free", "clear", "stamp", "loop", "data"}

Locals == [pc : Stages, i : Blk \cup {-ENOSPC}, node : Nodes, par : Blk,
           pnode : Inode, q : Nat, block_offset : Nat, nread : Nat]

(***************************************************************************)
(* create and mkdir: the image is sound at every moment.  What they have   *)
(* allocated is marked and serves nobody until the entry is written.       *)
(***************************************************************************)
\* The inode par and its copy.
ParentRead ==
  op.par \in Linked(disk) /\ S_ISDIR(op.par) /\ op.pnode = disk[op.par]

Held(m, d, S) == S \subseteq m /\ Spare(d, S)

\* The blocks that the stage relies on.
Allocated ==
  /\ op.pc = "allocdir" =>
       /\ req[1] = "mkdir"
       /\ op.i > 0 \/ FreeBits(map) = {}
       /\ op.i > 0 => Held(map, disk, {op.i})
  /\ op.pc = "dirs" =>
       /\ req[1] = "mkdir"
       /\ op.node.ptrs[0] \in Int
       /\ op.node.ptrs[0] > 0 =>
            op.i > 0 /\ op.node.ptrs[0] # op.i /\ Held(map, disk, {op.i, op.node.ptrs[0]})
  /\ op.pc = "inode" =>
       /\ op.i > 0 => Held(map, disk, {op.i})
       /\ req[1] = "mkdir" =>
            /\ op.i > 0 /\ op.node.ptrs[0] # op.i
            /\ op.node.ptrs[0] \in Blk
            /\ Held(map, disk, {op.i, op.node.ptrs[0]})
            /\ disk[op.node.ptrs[0]] = EmptyDir
  /\ op.pc = "entry" => op.i > 0 /\ Loose(map, disk, op.i)

Creating ==
  /\ op.pc \in {"alloc", "allocdir", "dirs", "inode", "entry", "parent"}
  /\ req[1] \in Making
  /\ Last(req[2]) \in AllNames
  /\ Sound
  /\ ParentRead
  /\ op.node.type = IF req[1] = "mkdir" THEN "dir" ELSE "file"
  /\ op.node.size = IF req[1] = "mkdir" THEN BlockSize ELSE 0
  /\ \A q \in PtrIdx : q # 0 => op.node.ptrs[q] = NoPtr
  /\ op.pc = "alloc" \/ req[1] = "create" => op.node.ptrs[0] = NoPtr
  /\ Allocated

(***************************************************************************)
(* unlink, rmdir and truncate: some blocks of the inode are free already.  *)
(* With them the image would be sound.                                     *)
(***************************************************************************)
\* The answer of the checks of a removal.
removal_errno(r) ==
  CASE r[1] = "unlink" -> unlink_errno(r[2])
    [] r[1] = "rmdir"  -> rmdir_errno(r[2])
    [] OTHER           -> IF r[3] # 0 THEN -EINVAL ELSE file_errno(r[2])

Victim == path2inum(req[2])

Removable ==
  /\ req[1] \in Removing
  /\ req[2] \in Paths
  /\ req[1] # "truncate" => req[2] # <<>>

Halfway ==
  /\ Removable
  /\ removal_errno(req) = 0
  /\ SoundImage(map \cup Owned(disk, Victim), disk)
  /\ req[1] = "truncate" => Victim \in map

\* The copies that the handler works with are what is on the disk.
CopiesRead ==
  /\ op.i = Victim
  /\ op.node = disk[Victim]
  /\ req[1] # "truncate" =>
       op.par = path2inum(Front(req[2])) /\ op.pnode = disk[op.par]

Freeing ==
  /\ op.pc = "free"
  /\ Halfway
  /\ CopiesRead
  /\ op.q <= ToFree
  /\ \A r \in 0 .. op.q - 1 : op.node.ptrs[r] \notin map

Clearing ==
  /\ op.pc = "clear"
  /\ req[1] # "truncate"
  /\ Halfway
  /\ CopiesRead
  /\ Owned(disk, Victim) \cap map = {}

Stamping ==
  /\ op.pc = "stamp"
  /\ req[1] \in Removing
  /\ req[2] \in Paths
  /\ req[1] # "truncate" /\ req[2] # <<>>
  /\ Sound
  /\ ParentRead

(***************************************************************************)
(* write: as in create, new blocks serve nobody until the inode is         *)
(* written.                                                                *)
(***************************************************************************)
\* The first pointer that the size does not cover, and the pointers assigned.
FirstNew == nblocks(disk[op.i])
NewIdx   == FirstNew .. op.q - 1
NewBlks  == {op.node.ptrs[r] : r \in NewIdx}

\* The inode that was read, with more pointers.
NodeRead ==
  /\ op.node.type = "file"
  /\ op.node.size = disk[op.i].size
  /\ \A r \in PtrIdx :
       (r < FirstNew \/ r > op.q \/ (r = op.q /\ op.pc = "loop")) =>
          op.node.ptrs[r] = disk[op.i].ptrs[r]

\* A write of len bytes at off has done n of them, and is at byte o of the
\* block of pointer q.
Reached(off, len, q, o, n) ==
  /\ n <= len
  /\ o < BlockSize
  /\ n < len => q * BlockSize + o = off + n
  /\ n = len /\ len # 0 => off + len <= q * BlockSize

\* Where the loop is in the file.
Position ==
  /\ offset \in Nat /\ length \in Nat
  /\ offset <= disk[op.i].size /\ offset + length <= MaxFile
  /\ Reached(offset, length, op.q, op.block_offset, op.nread)

Writing ==
  /\ op.pc \in {"loop", "data"}
  /\ req[1] = "write"
  /\ Sound
  /\ op.i \in Linked(disk) /\ disk[op.i].type = "file"
  /\ NodeRead
  /\ Position
  /\ NewIdx \subseteq PtrIdx
  /\ Held(map, disk, NewBlks)
  /\ \A r \in NewIdx : disk[op.node.ptrs[r]] = Data
  /\ \A r, s \in NewIdx : op.node.ptrs[r] = op.node.ptrs[s] => r = s
  /\ op.pc = "data" =>
       /\ op.nread < length /\ op.q >= FirstNew
       /\ op.node.ptrs[op.q] \in Int
       /\ op.node.ptrs[op.q] > 0 =>
            Held(map, disk, NewBlks \cup {op.node.ptrs[op.q]}) /\ op.node.ptrs[op.q] \notin NewBlks

(***************************************************************************)
(* All of it.                                                              *)
(***************************************************************************)
Resting ==
  /\ map0 = map /\ disk0 = disk
  /\ Sound \/ (redo /\ Halfway)

StepInv ==
  /\ TypeOK
  /\ redo \in BOOLEAN
  /\ redo => Removable
  /\ op # Idle => op \in Locals
  /\ op = Idle => Resting
  /\ op # Idle => Creating \/ Freeing \/ Clearing \/ Stamping \/ Writing

\* What was in use when the handler began still is, or a removal freed it.
Kept ==
  IF req[1] \in Removing THEN map \cap InUse(disk0) \subseteq InUse(disk)
  ELSE InUse(disk0) \subseteq InUse(disk)

KeepInv == op # Idle => Kept

\* What a step of a handler does for it.
Carries ==
  /\ req[1] \in Removing => map' \subseteq map /\ map' \cap InUse(disk) \subseteq InUse(disk')
  /\ req[1] \notin Removing => InUse(disk) \subseteq InUse(disk')

-----------------------------------------------------------------------------
(***************************************************************************)
(* The local variables and their updates.                                  *)
(***************************************************************************)
LEMMA LocalsAreNotIdle ==
  ASSUME NEW l \in Locals
  PROVE  l # Idle
BY DEF Locals, Stages, Idle

LEMMA NodeTypes ==
  ASSUME NEW l \in Locals
  PROVE  /\ l.pc \in Stages /\ l.i \in Blk \cup {-ENOSPC} /\ l.par \in Blk
         /\ l.pnode \in Inode /\ l.q \in Nat /\ l.block_offset \in Nat /\ l.nread \in Nat
         /\ l.node \in Nodes
         /\ l.node.ptrs \in [PtrIdx -> Blk \cup {NoPtr, -ENOSPC}]
BY DEF Locals, Nodes

LEMMA InodeIsNode == Inode \subseteq Nodes
BY DEF Inode, Nodes

LEMMA SetPc ==
  ASSUME NEW l \in Locals, NEW s \in Stages
  PROVE  LET n == [l EXCEPT !.pc = s]
         IN  /\ n \in Locals /\ n.pc = s /\ n.i = l.i /\ n.node = l.node
             /\ n.par = l.par /\ n.pnode = l.pnode /\ n.q = l.q
             /\ n.block_offset = l.block_offset /\ n.nread = l.nread
BY DEF Locals

LEMMA SetI ==
  ASSUME NEW l \in Locals, NEW r \in Blk \cup {-ENOSPC}
  PROVE  LET n == [l EXCEPT !.i = r]
         IN  /\ n \in Locals /\ n.pc = l.pc /\ n.i = r /\ n.node = l.node
             /\ n.par = l.par /\ n.pnode = l.pnode
BY DEF Locals

LEMMA SetQ ==
  ASSUME NEW l \in Locals
  PROVE  LET n == [l EXCEPT !.q = @ + 1]
         IN  /\ n \in Locals /\ n.pc = l.pc /\ n.i = l.i /\ n.node = l.node
             /\ n.par = l.par /\ n.pnode = l.pnode /\ n.q = l.q + 1
BY DEF Locals

LEMMA CallTypes ==
  ASSUME NEW s \in Stages, NEW i \in Blk, NEW in \in Nodes, NEW par \in Blk, disk[par] \in Inode
  PROVE  LET n == Call(s, i, in, par)
         IN  /\ n \in Locals /\ n.pc = s /\ n.i = i /\ n.node = in
             /\ n.par = par /\ n.pnode = disk[par] /\ n.q = 0
             /\ n.block_offset = 0 /\ n.nread = 0
BY DEF Call, Locals

-----------------------------------------------------------------------------
(***************************************************************************)
(* How a handler goes on and ends.                                         *)
(***************************************************************************)
InStage == Creating \/ Freeing \/ Clearing \/ Stamping \/ Writing

\* A sound image is well typed, and so is one with some blocks unmarked.
LEMMA HalfwayTypes ==
  ASSUME NEW m, NEW d, NEW S, SoundImage(m \cup S, d)
  PROVE  m \subseteq Blk /\ d \in [Blk -> Content]
BY DEF SoundImage

LEMMA Runs ==
  ASSUME StepInv, op # Idle, NEW l \in Locals, Go(l), InStage',
         map' \subseteq Blk, disk' \in [Blk -> Content]
  PROVE  StepInv'
<1>1. TypeOK'
  BY DEF StepInv, Go, TypeOK
<1>2. redo' \in BOOLEAN /\ (redo' => Removable')
  BY DEF StepInv, Go, Removable
<1>3. op' \in Locals /\ op' # Idle
  BY LocalsAreNotIdle DEF Go
<1>. QED BY <1>1, <1>2, <1>3 DEF StepInv, InStage

\* Idle mentions no variable.
LEMMA Rests ==
  ASSUME ret' \in Results, up' \in {"down", "mounted"},
         op' = Idle, map0' = map', disk0' = disk',
         redo' \in BOOLEAN, redo' => Removable',
         Sound' \/ (redo' /\ Halfway')
  PROVE  StepInv' /\ KeepInv'
<1>1. map' \subseteq Blk /\ disk' \in [Blk -> Content]
  BY DEF Sound, Halfway, SoundImage
<1>2. TypeOK'
  BY <1>1 DEF TypeOK, Results
<1>3. op' = Idle'
  BY DEF Idle
<1>. QED BY <1>2, <1>3 DEF StepInv, Resting, KeepInv

\* The handlers that leave a sound image.
LEMMA Ended ==
  ASSUME StepInv, NEW r \in Results, End(r), Sound'
  PROVE  StepInv' /\ KeepInv'
BY Rests DEF End, StepInv, TypeOK

LEMMA Asserted ==
  ASSUME StepInv, NEW lba, AssertFails(lba), Sound
  PROVE  StepInv' /\ KeepInv'
<1>1. Sound' /\ (redo' => Removable')
  BY DEF AssertFails, Sound, StepInv, Removable
<1>. QED BY <1>1, Rests DEF AssertFails, StepInv, TypeOK, Results

LEMMA SpareUnion ==
  ASSUME NEW d, NEW S, NEW T, Spare(d, S), Spare(d, T)
  PROVE  Spare(d, S \cup T)
BY DEF Spare

\* A call of alloc_blk gives a spare block or changes nothing.
LEMMA AllocStep ==
  ASSUME Sound, Marked(alloc_blk(map))
  PROVE  LET r == alloc_blk(map)
         IN  /\ Sound' /\ disk' = disk /\ map \subseteq map' /\ map' \subseteq Blk
             /\ r \in Blk \cup {-ENOSPC}
             /\ \/ r = -ENOSPC /\ r < 0 /\ FreeBits(map) = {} /\ map' = map
                \/ r \in Blk /\ r > 2 /\ r \notin map /\ r \in map' /\ Spare(disk, {r})
<1> DEFINE r == alloc_blk(map)
<1>1. map \subseteq Blk
  BY DEF Sound, SoundImage
<1>2. \/ r = -ENOSPC /\ r < 0 /\ FreeBits(map) = {}
      \/ r \in Blk /\ r > 2 /\ r \notin map
  BY <1>1, AllocResult
<1>3. disk' = disk /\ map' = IF r > 0 THEN map \cup {r} ELSE map
  BY DEF Marked, bit_set
<1> HIDE DEF r
<1>4. CASE r = -ENOSPC /\ r < 0 /\ FreeBits(map) = {}
  <2>1. map' = map
    BY <1>3, <1>4 DEF ENOSPC
  <2>2. Sound'
    BY <1>3, <2>1 DEF Sound
  <2>. QED BY <1>1, <1>3, <1>4, <2>1, <2>2 DEF r
<1>5. CASE r \in Blk /\ r > 2 /\ r \notin map
  <2>1. r > 0
    BY <1>5 DEF Blk
  <2>2. map' = map \cup {r}
    BY <1>3, <2>1
  <2>3. map' \in SUBSET Blk /\ map \subseteq map' /\ r \in map'
    BY <1>1, <1>5, <2>2
  <2>4. SoundImage(map', disk)
    BY <2>3, Widen DEF Sound
  <2>5. Sound'
    BY <1>3, <2>4 DEF Sound
  <2>6. Spare(disk, {r})
    BY <1>5, UnmarkedSpare DEF Sound
  <2>. QED BY <1>3, <1>5, <2>3, <2>5, <2>6 DEF r
<1>. QED BY <1>2, <1>4, <1>5

LEMMA Begun ==
  ASSUME StepInv, op = Idle, NEW call \in Locals, Begin(call), InStage',
         redo => Removable'
  PROVE  StepInv' /\ KeepInv'
<1>1. map' = map /\ disk' = disk /\ disk0' = disk /\ map0' = map /\ redo' = redo
  BY DEF Begin, StepInv, Resting
<1>2. TypeOK'
  BY <1>1 DEF StepInv, Begin, TypeOK
<1>3. op' \in Locals /\ op' # Idle
  BY LocalsAreNotIdle DEF Begin
<1>4. StepInv'
  BY <1>1, <1>2, <1>3 DEF StepInv, InStage
<1>5. KeepInv'
  BY <1>1 DEF KeepInv, Kept
<1>. QED BY <1>4, <1>5

LEMMA Refused ==
  ASSUME StepInv, NEW r \in Results, Refuse(r), Sound
  PROVE  StepInv' /\ KeepInv'
<1>1. Sound'
  BY DEF Refuse, Sound
<1>. QED BY <1>1, Ended DEF Refuse

\* Only a removal is taken while a removal waits to be repeated, unless the
\* caller strays.
LEMMA TakenSound ==
  ASSUME StepInv, NEW r, Take(r), ~strayed', r[1] \notin Removing
  PROVE  Sound /\ ~redo /\ op = Idle /\ req' = r
<1>1. ~redo
  BY DEF Take, StepInv, Removable
<1>. QED BY <1>1 DEF Take, StepInv, Resting

-----------------------------------------------------------------------------
(***************************************************************************)
(* fs_create and fs_mkdir.                                                 *)
(***************************************************************************)
\* What the first step of both leaves.
LEMMA MakingBegins ==
  ASSUME StepInv, NEW h \in Making, NEW p \in Paths, NEW perm \in Perms, NEW now \in Times,
         Take(<<h, p, perm, now>>), ~strayed', create_errno(p) = 0,
         NEW node, node = NewInode(IF h = "mkdir" THEN "dir" ELSE "file", perm, now,
                                   IF h = "mkdir" THEN BlockSize ELSE 0, NoPtr),
         Begin(Call("alloc", 0, node, path2inum(Front(p))))
  PROVE  StepInv' /\ KeepInv'
<1> DEFINE r   == <<h, p, perm, now>>
           par == path2inum(Front(p))
           c   == Call("alloc", 0, node, par)
<1>1. r[1] = h /\ r[2] = p /\ h \notin Removing
  BY DEF Making, Removing
<1>2. Sound /\ ~redo /\ op = Idle /\ req' = r
  BY <1>1, TakenSound
<1>3. p # <<>> /\ par \in Linked(disk) /\ S_ISDIR(par)
  BY <1>2, CreateAllowed
<1>4. par \in Blk /\ disk[par] \in Inode /\ Last(p) \in AllNames
  BY <1>2, <1>3, LinkedInode, FrontTypes
<1>5. /\ node \in Inode
      /\ node.type = (IF h = "mkdir" THEN "dir" ELSE "file")
      /\ node.size = (IF h = "mkdir" THEN BlockSize ELSE 0)
      /\ node.ptrs[0] = NoPtr
  BY NewInodeTypes, Sizes DEF FileTypes
<1>6. \A q \in PtrIdx : q # 0 => node.ptrs[q] = NoPtr
  BY DEF NewInode
<1>7. 0 \in Blk /\ "alloc" \in Stages
  BY LayoutAssumption DEF Blk, Stages
<1>8. /\ c \in Locals /\ c.pc = "alloc" /\ c.node = node
      /\ c.par = par /\ c.pnode = disk[par]
  BY <1>4, <1>5, <1>7, CallTypes, InodeIsNode
<1>9. op' = c /\ map' = map /\ disk' = disk
  BY DEF Begin
<1> HIDE DEF c, r
<1>10. req'[1] = h /\ req'[2] = p
  BY <1>1, <1>2
<1>11. Sound' /\ ParentRead'
  BY <1>2, <1>3, <1>8, <1>9 DEF Sound, ParentRead, S_ISDIR
<1>12. Allocated'
  BY <1>8, <1>9 DEF Allocated
<1>13. Creating'
  BY <1>4, <1>5, <1>6, <1>8, <1>9, <1>10, <1>11, <1>12 DEF Creating
<1>. QED BY <1>2, <1>8, <1>13, Begun DEF InStage, c

LEMMA CreateBegins ==
  ASSUME StepInv, NEW p \in Paths, NEW perm \in Perms, NEW now \in Times,
         create_begin(p, perm, now), ~strayed'
  PROVE  StepInv' /\ KeepInv'
<1>1. <<"create", p, perm, now>>[1] \notin Removing
  BY DEF Removing
<1>2. Sound
  BY <1>1, TakenSound DEF create_begin
<1>3. CASE Refuse(create_errno(p))
  BY <1>2, <1>3, ErrnoTypes, Refused
<1>4. CASE create_errno(p) = 0 /\ Begin(Call("alloc", 0, NewInode("file", perm, now, 0, NoPtr),
                                             path2inum(Front(p))))
  BY <1>4, MakingBegins, "create" \in Making DEF create_begin, Making
<1>. QED BY <1>3, <1>4 DEF create_begin

LEMMA MkdirBegins ==
  ASSUME StepInv, NEW p \in Paths, NEW perm \in Perms, NEW now \in Times,
         mkdir_begin(p, perm, now), ~strayed'
  PROVE  StepInv' /\ KeepInv'
<1>1. <<"mkdir", p, perm, now>>[1] \notin Removing
  BY DEF Removing
<1>2. Sound
  BY <1>1, TakenSound DEF mkdir_begin
<1>3. CASE Refuse(create_errno(p))
  BY <1>2, <1>3, ErrnoTypes, Refused
<1>4. CASE create_errno(p) = 0 /\ Begin(Call("alloc", 0, NewInode("dir", perm, now, BlockSize, NoPtr),
                                             path2inum(Front(p))))
  BY <1>4, MakingBegins, "mkdir" \in Making DEF mkdir_begin, Making
<1>. QED BY <1>3, <1>4 DEF mkdir_begin

\* Where the handler goes on.
LEMMA AfterMaking ==
  ASSUME NEW h, h \in Making
  PROVE  /\ after(h, "alloc") = IF h = "mkdir" THEN "allocdir" ELSE "inode"
         /\ after(h, "allocdir") = "dirs"
         /\ after(h, "dirs") = "inode"
         /\ after(h, "inode") = "entry"
         /\ after(h, "entry") = "parent"
BY DEF after

\* A step of create or mkdir that changes neither req, nor the parent, nor the
\* attributes of the new inode.
Onward(l) ==
  /\ l \in Locals
  /\ l.pc \in {"alloc", "allocdir", "dirs", "inode", "entry", "parent"} \ {"alloc"}
  /\ l.par = op.par /\ l.pnode = op.pnode
  /\ l.node.type = op.node.type /\ l.node.size = op.node.size
  /\ \A q \in PtrIdx : q # 0 => l.node.ptrs[q] = op.node.ptrs[q]
  /\ req[1] = "create" => l.node.ptrs[0] = op.node.ptrs[0]

LEMMA MakingRuns ==
  ASSUME StepInv, op # Idle, Creating, NEW l, Onward(l), Go(l),
         Sound', op.par \in Linked(disk'), disk'[op.par] = disk[op.par], Allocated',
         InUse(disk) \subseteq InUse(disk')
  PROVE  StepInv' /\ Carries
<1>1. op' = l /\ req' = req
  BY DEF Go
<1>2. ParentRead'
  BY <1>1 DEF Onward, Creating, ParentRead, S_ISDIR
<1>3. Creating'
  BY <1>1, <1>2 DEF Onward, Creating
<1>4. map' \subseteq Blk /\ disk' \in [Blk -> Content]
  BY DEF Sound, SoundImage
<1>5. l \in Locals
  BY DEF Onward
<1>6. StepInv'
  BY <1>3, <1>4, <1>5, Runs DEF InStage
<1>7. req[1] \notin Removing
  BY DEF Creating, Making, Removing
<1>. QED BY <1>6, <1>7 DEF Carries

LEMMA AllocInodeKeeps ==
  ASSUME StepInv, Creating, alloc_inode
  PROVE  StepInv' /\ Carries
<1> DEFINE r == alloc_blk(map)
           s == after(req[1], "alloc")
           k == [op EXCEPT !.i = r]
           l == [k EXCEPT !.pc = s]
<1>1. op # Idle /\ op.pc = "alloc" /\ Marked(r) /\ Go(l)
  BY DEF alloc_inode, At, Advance
<1>2. op \in Locals /\ Sound /\ ParentRead /\ req[1] \in Making
  BY <1>1 DEF StepInv, Creating
<1>3. s = IF req[1] = "mkdir" THEN "allocdir" ELSE "inode"
  BY <1>2, AfterMaking
<1>4. s \in Stages
  BY <1>3 DEF Stages
<1>5. /\ Sound' /\ disk' = disk /\ r \in Blk \cup {-ENOSPC}
      /\ \/ r = -ENOSPC /\ r < 0 /\ FreeBits(map) = {} /\ map' = map
         \/ r \in Blk /\ r > 2 /\ r \notin map /\ r \in map' /\ Spare(disk, {r})
  BY <1>1, <1>2, AllocStep
<1> HIDE DEF r, s
<1>6. /\ k \in Locals /\ k.i = r /\ k.node = op.node /\ k.par = op.par /\ k.pnode = op.pnode
  BY <1>2, <1>5, SetI
<1> HIDE DEF k
<1>7. /\ l \in Locals /\ l.pc = s /\ l.i = r /\ l.node = op.node
      /\ l.par = op.par /\ l.pnode = op.pnode
  BY <1>4, <1>6, SetPc
<1> HIDE DEF l
<1>8. Onward(l)
  BY <1>3, <1>7 DEF Onward
<1>9. Allocated'
  <2>1. op' = l /\ req' = req
    BY <1>1 DEF Go
  <2>2. r > 0 => Held(map', disk', {r})
    BY <1>5 DEF Held, Blk, ENOSPC
  <2>3. r > 0 \/ FreeBits(map') = {}
    BY <1>5 DEF Blk
  <2>4. CASE req[1] = "mkdir"
    BY <2>1, <2>2, <2>3, <2>4, <1>3, <1>7 DEF Allocated
  <2>5. CASE req[1] # "mkdir"
    BY <2>1, <2>2, <2>5, <1>3, <1>7 DEF Allocated
  <2>. QED BY <2>4, <2>5
<1>. QED BY <1>1, <1>2, <1>5, <1>8, <1>9, MakingRuns DEF ParentRead

\* The second call finds a block only if the first did.
LEMMA AllocDirsKeeps ==
  ASSUME StepInv, Creating, alloc_dirs
  PROVE  StepInv' /\ Carries
<1> DEFINE r == alloc_blk(map)
           n == [op.node EXCEPT !.ptrs[0] = r]
           l == [op EXCEPT !.node = n, !.pc = "dirs"]
           i == op.i
<1>1. op # Idle /\ op.pc = "allocdir" /\ Marked(r) /\ op \in Locals /\ req[1] \in Making
  BY DEF alloc_dirs, At, StepInv, Creating
<1>2. Go(l)
  <2>1. after(req[1], op.pc) = "dirs"
    BY <1>1, AfterMaking
  <2>2. Go([[op EXCEPT !.node.ptrs[0] = r] EXCEPT !.pc = "dirs"])
    BY <2>1 DEF alloc_dirs, Advance
  <2>. QED BY <2>2, <1>1 DEF Locals
<1>3. /\ Sound /\ ParentRead /\ req[1] = "mkdir"
      /\ i > 0 \/ FreeBits(map) = {}
      /\ i > 0 => Held(map, disk, {i})
  BY <1>1 DEF Creating, Allocated
<1>4. /\ Sound' /\ disk' = disk /\ r \in Blk \cup {-ENOSPC} /\ map \subseteq map'
      /\ \/ r = -ENOSPC /\ r < 0
         \/ r \in Blk /\ r > 2 /\ r \notin map /\ r \in map' /\ Spare(disk, {r})
  BY <1>1, <1>3, AllocStep
<1>5. FreeBits(map) = {} => r = -ENOSPC
  BY DEF alloc_blk
<1> HIDE DEF r
<1>6. /\ n \in Nodes /\ n.type = op.node.type /\ n.size = op.node.size /\ n.ptrs[0] = r
      /\ \A x \in PtrIdx : x # 0 => n.ptrs[x] = op.node.ptrs[x]
  <2>1. op.node \in Nodes /\ 0 \in PtrIdx
    BY <1>1, NodeTypes, SizesAssumption DEF PtrIdx
  <2>2. r \in Blk \cup {-ENOSPC}
    BY <1>4
  <2>. QED BY ONLY <2>1, <2>2 DEF Nodes
<1> HIDE DEF n
<1>7. /\ l \in Locals /\ l.pc = "dirs" /\ l.i = i /\ l.node = n
      /\ l.par = op.par /\ l.pnode = op.pnode
  <2>1. "dirs" \in Stages
    BY DEF Stages
  <2>2. op \in Locals /\ n \in Nodes
    BY <1>1, <1>6
  <2>. QED BY ONLY <2>1, <2>2 DEF Locals
<1> HIDE DEF l
<1>8. Onward(l)
  BY <1>3, <1>6, <1>7 DEF Onward
<1>9. Allocated'
  <2>1. op' = l /\ req' = req
    BY <1>2 DEF Go
  <2>2. r \in Int
    BY <1>4 DEF Blk, ENOSPC
  <2>3. ASSUME r > 0 PROVE i > 0 /\ r # i /\ Held(map', disk', {i, r})
    <3>1. r \in map' /\ r \notin map /\ Spare(disk, {r})
      BY <2>3, <1>4 DEF ENOSPC
    <3>2. i > 0
      BY <2>3, <1>3, <1>5 DEF ENOSPC
    <3>3. i \in map /\ Spare(disk, {i})
      BY <3>2, <1>3 DEF Held
    <3>4. {i, r} = {i} \cup {r}
      OBVIOUS
    <3>5. Spare(disk, {i, r})
      BY <3>1, <3>3, <3>4, SpareUnion
    <3>. QED BY <3>1, <3>2, <3>3, <3>5, <1>4 DEF Held
  <2> HIDE DEF i
  <2>. QED BY <2>1, <2>2, <2>3, <1>3, <1>6, <1>7 DEF Allocated
<1>. QED BY <1>1, <1>2, <1>3, <1>4, <1>8, <1>9, MakingRuns DEF ParentRead

\* Writing what the handler holds.
LEMMA WriteHeld ==
  ASSUME Sound, NEW S, Held(map, disk, S), NEW b \in S, NEW c \in Content,
         \A k \in Slots : ~(c.kind = "dir" /\ c.ents[k].valid),
         block_write(b, c)
  PROVE  /\ Sound' /\ Held(map', disk', S)
         /\ map' = map /\ disk'[b] = c
         /\ \A x \in Blk : x # b => disk'[x] = disk[x]
         /\ Linked(disk') = Linked(disk)
         /\ \A j \in Linked(disk) : disk'[j] = disk[j] /\ Owned(disk', j) = Owned(disk, j)
         /\ InUse(disk') = InUse(disk)
<1>1. /\ disk \in [Blk -> Content] /\ S \subseteq Blk /\ b \in Blk
      /\ S \subseteq map /\ Spare(disk, S) /\ SoundImage(map, disk)
  BY DEF Sound, SoundImage, Held, Spare
<1>2. disk' = [disk EXCEPT ![b] = c] /\ map' = map
  BY DEF block_write
<1>3. /\ disk' \in [Blk -> Content] /\ disk'[b] = c
      /\ \A x \in Blk : x # b => disk'[x] = disk[x]
  BY <1>1, <1>2
<1>4. \A x \in S, k \in Slots : ~IsEntry(disk', x, k)
  BY <1>1, <1>3 DEF IsEntry, Spare
<1>5. /\ SoundImage(map, disk') /\ Spare(disk', S) /\ Linked(disk') = Linked(disk)
      /\ \A j \in Linked(disk) : disk'[j] = disk[j] /\ Owned(disk', j) = Owned(disk, j)
  <2>1. \A x \in Blk \ S : disk'[x] = disk[x]
    BY <1>3
  <2>. QED BY ONLY <1>1, <1>3, <1>4, <2>1, WriteSpare
<1>6. InUse(disk') = InUse(disk)
  BY <1>5 DEF InUse
<1>. QED BY <1>1, <1>2, <1>3, <1>5, <1>6 DEF Sound, Held

LEMMA EmptyDirContent ==
  /\ EmptyDir \in DirBlock /\ EmptyDir \in Content /\ EmptyDir.kind = "dir"
  /\ \A k \in Slots : ~EmptyDir.ents[k].valid
<1>1. EmptySlot \in Dirent /\ ~EmptySlot.valid
  BY DEF EmptySlot, Dirent
<1>2. EmptyDir \in DirBlock
  BY <1>1 DEF EmptyDir, DirBlock
<1>. QED BY <1>1, <1>2 DEF EmptyDir, Content

LEMMA WriteNewDirsKeeps ==
  ASSUME StepInv, Creating, write_new_dirs
  PROVE  StepInv' /\ (KeepInv' \/ Carries)
<1> DEFINE b == op.node.ptrs[0]
           i == op.i
           l == [op EXCEPT !.pc = "inode"]
<1>1. /\ op # Idle /\ op.pc = "dirs" /\ op \in Locals /\ req[1] \in Making
      /\ Sound /\ ParentRead /\ op.node \in Nodes /\ 0 \in PtrIdx
  BY NodeTypes, SizesAssumption DEF write_new_dirs, At, StepInv, Creating, PtrIdx
<1>2. CASE AssertFails(b)
  BY <1>1, <1>2, Asserted
<1>3. CASE block_write(b, EmptyDir) /\ Advance(op)
  <2>1. Go(l)
    BY <1>1, <1>3, AfterMaking DEF Advance
  <2>2. req[1] = "mkdir" /\ i > 0 /\ b # i /\ Held(map, disk, {i, b})
    BY <1>1, <1>3 DEF block_write, Creating, Allocated
  <2>3. b \in Blk
    BY <2>2 DEF Held, Spare
  <2>4. /\ l \in Locals /\ l.pc = "inode" /\ l.i = i /\ l.node = op.node
        /\ l.par = op.par /\ l.pnode = op.pnode
    <3>1. "inode" \in Stages
      BY DEF Stages
    <3>. QED BY <1>1, <3>1, SetPc
  <2> HIDE DEF l
  <2>5. Onward(l)
    BY <2>4 DEF Onward
  <2> HIDE DEF b, i
  <2>6. /\ Sound' /\ Held(map', disk', {i, b}) /\ disk'[b] = EmptyDir
        /\ Linked(disk') = Linked(disk)
        /\ \A j \in Linked(disk) : disk'[j] = disk[j]
        /\ InUse(disk') = InUse(disk)
    BY <1>1, <1>3, <2>2, EmptyDirContent, WriteHeld
  <2>7. Held(map', disk', {i})
    BY <2>6 DEF Held, Spare
  <2>8. op' = l /\ req' = req
    BY <2>1 DEF Go
  <2>9. EmptyDir' = EmptyDir
    BY DEF EmptyDir, EmptySlot
  <2>10. Allocated'
    BY <2>2, <2>3, <2>4, <2>6, <2>7, <2>8, <2>9 DEF Allocated, b
  <2>. QED BY <1>1, <2>1, <2>5, <2>6, <2>10, MakingRuns DEF ParentRead
<1>. QED BY <1>2, <1>3 DEF write_new_dirs

\* The pointers are all assigned by the time the inode is written.
LEMMA NodeIsInode ==
  ASSUME NEW n \in Nodes, \A q \in PtrIdx : n.ptrs[q] \in Blk \cup {NoPtr}
  PROVE  n \in Inode
BY DEF Nodes, Inode

LEMMA WriteNewInodeKeeps ==
  ASSUME StepInv, Creating, write_new_inode
  PROVE  StepInv' /\ (KeepInv' \/ Carries)
<1> DEFINE b == op.node.ptrs[0]
           i == op.i
           n == op.node
           l == [op EXCEPT !.pc = "entry"]
           S == IF req[1] = "mkdir" THEN {i, b} ELSE {i}
<1>1. /\ op # Idle /\ op.pc = "inode" /\ op \in Locals /\ req[1] \in Making
      /\ Sound /\ ParentRead /\ n \in Nodes
  BY NodeTypes DEF write_new_inode, At, StepInv, Creating
<1>2. CASE AssertFails(i)
  BY <1>1, <1>2, Asserted
<1>3. CASE block_write(i, n) /\ Advance(op)
  <2>1. Go(l)
    BY <1>1, <1>3, AfterMaking DEF Advance
  <2>2. /\ i > 0
        /\ req[1] = "mkdir" => b # i /\ b \in Blk /\ disk[b] = EmptyDir
        /\ Held(map, disk, S)
    BY <1>1, <1>3 DEF block_write, Creating, Allocated
  <2>3. /\ l \in Locals /\ l.pc = "entry" /\ l.i = i /\ l.node = n
        /\ l.par = op.par /\ l.pnode = op.pnode
    <3>1. "entry" \in Stages
      BY DEF Stages
    <3>. QED BY <1>1, <3>1, SetPc
  <2> HIDE DEF l
  <2>4. Onward(l)
    BY <2>3 DEF Onward
  <2>5. n \in Inode /\ n.kind = "inode" /\ n \in Content
    <3>1. \A q \in PtrIdx : n.ptrs[q] \in Blk \cup {NoPtr}
      <4>1. b \in Blk \cup {NoPtr}
        BY <1>1, <2>2 DEF Creating, Making
      <4>2. \A q \in PtrIdx : q # 0 => n.ptrs[q] = NoPtr
        BY DEF Creating
      <4>. QED BY <4>1, <4>2
    <3>2. n \in Inode
      BY <1>1, <3>1, NodeIsInode
    <3>. QED BY <3>2 DEF Inode, Content
  <2>6. /\ n.type = IF req[1] = "mkdir" THEN "dir" ELSE "file"
        /\ n.size = IF req[1] = "mkdir" THEN BlockSize ELSE 0
    BY DEF Creating
  <2>7. i \in S /\ (req[1] = "mkdir" => b \in S)
    OBVIOUS
  <2> HIDE DEF S
  <2>8. /\ Sound' /\ Held(map', disk', S) /\ disk'[i] = n
        /\ \A x \in Blk : x # i => disk'[x] = disk[x]
        /\ Linked(disk') = Linked(disk)
        /\ \A j \in Linked(disk) : disk'[j] = disk[j]
        /\ InUse(disk') = InUse(disk)
    <3> HIDE DEF b, i, n
    <3>. QED BY <1>1, <1>3, <2>2, <2>5, <2>7, WriteHeld
  <2>9. Loose(map', disk', i)
    <3>1. \/ n.type = "file" /\ n.size = 0
          \/ n.type = "dir" /\ n.size # 0 /\ b \in S /\ disk'[b].kind = "dir"
      BY <1>1, <2>2, <2>6, <2>7, <2>8, EmptyDirContent, SizesAssumption DEF Making
    <3>2. SoundImage(map', disk') /\ Spare(disk', S) /\ S \subseteq map'
      BY <2>8 DEF Sound, Held
    <3>. QED BY <2>5, <2>7, <2>8, <3>1, <3>2, NewLoose
  <2>10. op' = l
    BY <2>1 DEF Go
  <2>11. Allocated'
    BY <2>2, <2>3, <2>9, <2>10 DEF Allocated
  <2>. QED BY <1>1, <2>1, <2>4, <2>8, <2>11, MakingRuns DEF ParentRead
<1>. QED BY <1>2, <1>3 DEF write_new_inode

\* The entry is what links the new inode.
LEMMA WriteEntryKeeps ==
  ASSUME StepInv, Creating, write_entry
  PROVE  StepInv' /\ (KeepInv' \/ Carries)
<1> DEFINE b    == op.pnode.ptrs[0]
           i    == op.i
           par  == op.par
           Free == FreeSlots(disk[b].ents)
           k    == Min(Free)
           x    == Entry(i, Last(req[2]))
           l    == [op EXCEPT !.pc = "parent"]
<1>1. /\ op # Idle /\ op.pc = "entry" /\ op \in Locals /\ req[1] \in Making
      /\ Sound /\ par \in Linked(disk) /\ S_ISDIR(par) /\ op.pnode = disk[par]
  BY Zenon DEF write_entry, At, StepInv, Creating, ParentRead
<1>2. CASE Refuse(-EINVAL)
  BY <1>1, <1>2, ErrnoTypes, Refused
<1>3. CASE /\ Free # {}
           /\ block_write(b, [disk[b] EXCEPT !.ents[k] = x])
           /\ Advance(op)
  <2>1. Go(l)
    BY <1>1, <1>3, AfterMaking, Zenon DEF Advance
  <2>2. /\ l \in Locals /\ l.pc = "parent" /\ l.i = i /\ l.node = op.node
        /\ l.par = par /\ l.pnode = op.pnode
    <3>1. "parent" \in Stages
      BY DEF Stages
    <3>. QED BY <1>1, <3>1, SetPc
  <2> HIDE DEF l
  <2>3. Onward(l)
    BY <2>2 DEF Onward
  <2>4. /\ b = DirBlkOf(par) /\ b \in map /\ b \in Blk /\ disk[b].kind = "dir"
        /\ disk \in [Blk -> Content] /\ map \in SUBSET Blk
    BY <1>1, DirOf DEF DirBlkOf, Sound, SoundImage
  <2>5. i \in Blk /\ Loose(map, disk, i)
    BY <1>1 DEF Creating, Allocated, Loose
  <2>6. x \in Dirent /\ x.valid /\ x.inode = i
    BY <2>5 DEF Creating, Entry, Dirent
  <2>7. k \in Slots /\ ~disk[b].ents[k].valid
    BY <1>3, FirstFree
  <2>8. SlotSet(disk, disk', b, k, x) /\ map' = map
    BY <1>3 DEF SlotSet, block_write
  <2> HIDE DEF x, k, b, i, Free
  <2>9. /\ EntsChanged(disk, disk', b) /\ disk'[b].ents[k] = x
        /\ \A s \in Slots : s # k => disk'[b].ents[s] = disk[b].ents[s]
    BY <2>4, <2>6, <2>7, <2>8, NewEnt
  <2>10. Filled(disk, disk', b, k, i)
    BY <2>6, <2>7, <2>9 DEF Filled
  <2>11. SoundImage(map, disk') /\ Linked(disk') = Linked(disk) \cup {i}
    BY <1>1, <2>4, <2>5, <2>7, <2>9, <2>10, Attach DEF Sound
  <2>12. \A j \in Linked(disk) : disk'[j] = disk[j] /\ Owned(disk', j) = Owned(disk, j)
    <3> SUFFICES ASSUME NEW j \in Linked(disk)
                 PROVE  disk'[j] = disk[j] /\ Owned(disk', j) = Owned(disk, j)
      OBVIOUS
    <3>1. j \in Blk /\ InodeSound(map, disk, j) /\ Owned(disk, j) \subseteq map
      BY <1>1, SoundOwned, LinkedInode DEF Sound
    <3>. QED BY <3>1, <2>4, <2>9, EntsKeepInodes
  <2>13. InUse(disk) \subseteq InUse(disk')
    BY <2>11, <2>12 DEF InUse
  <2>14. Sound' /\ par \in Linked(disk') /\ disk'[par] = disk[par]
    BY <1>1, <2>8, <2>11, <2>12 DEF Sound
  <2>15. Allocated'
    BY <2>1, <2>2 DEF Go, Allocated
  <2>. QED BY <1>1, <2>1, <2>3, <2>13, <2>14, <2>15, MakingRuns
<1>. QED BY <1>2, <1>3 DEF write_entry

LEMMA WriteParentKeeps ==
  ASSUME StepInv, Creating, write_parent
  PROVE  StepInv' /\ KeepInv'
<1>1. Sound /\ op.pnode = disk[op.par]
  BY DEF Creating, ParentRead
<1>2. disk' = disk /\ map' = map
  <2>1. disk \in [Blk -> Content]
    BY <1>1 DEF Sound, SoundImage
  <2>. QED BY <1>1, <2>1 DEF write_parent, block_write
<1>3. Sound'
  BY <1>1, <1>2 DEF Sound
<1>. QED BY <1>3, Ended DEF write_parent, Results

-----------------------------------------------------------------------------
(***************************************************************************)
(* fs_unlink, fs_rmdir and fs_truncate.                                    *)
(***************************************************************************)
\* The answers of the lookups depend on the disk alone.
LEMMA SamePaths ==
  ASSUME disk' = disk
  PROVE  \A p : path2inum(p)' = path2inum(p)
BY DEF path2inum, walk, Hits, Dirs, DirBlkOf, S_ISDIR

LEMMA SameChecks ==
  ASSUME disk' = disk, NEW r
  PROVE  removal_errno(r)' = removal_errno(r)
<1>1. \A p : path2inum(p)' = path2inum(p)
  BY SamePaths
<1>2. \A p : parent_errno(p)' = parent_errno(p)
  BY <1>1 DEF parent_errno, S_ISDIR
<1>3. \A p : unlink_errno(p)' = unlink_errno(p)
  BY <1>1, <1>2 DEF unlink_errno, S_ISDIR
<1>4. \A p : rmdir_errno(p)' = rmdir_errno(p)
  BY <1>1, <1>2 DEF rmdir_errno, S_ISDIR, Dirs, DirBlkOf, FreeSlots
<1>5. \A p : file_errno(p)' = file_errno(p)
  BY <1>1 DEF file_errno, path_errno, Exists, S_ISDIR
<1>. QED BY <1>3, <1>4, <1>5 DEF removal_errno

LEMMA HalfwayWalkable ==
  ASSUME NEW m, NEW S, SoundImage(m \cup S, disk)
  PROVE  Walkable
<1>1. m \cup S \in SUBSET Blk /\ Blk \in SUBSET Blk /\ m \cup S \subseteq Blk
  BY DEF SoundImage
<1> HIDE DEF Walkable
<1>2. SoundImage(Blk, disk)
  BY <1>1, Widen
<1>. QED BY <1>2 DEF Walkable

\* What a removal that passes its checks is about: a file, or for rmdir a
\* directory without entries; and never the root, nor the parent itself.
Condemned(h, p) ==
  LET i   == path2inum(p)
      par == path2inum(Front(p))
  IN  /\ i \in Linked(disk) /\ i \in Blk /\ i > 0 /\ disk[i] \in Inode
      /\ i # RootInum
      /\ disk[i].type = (IF h = "rmdir" THEN "dir" ELSE "file")
      /\ Hollow(disk, i)
      /\ h # "truncate" => par \in Linked(disk) /\ S_ISDIR(par) /\ par # i

LEMMA RemovalAllowed ==
  ASSUME Walkable, NEW r, r[1] \in Removing, r[2] \in Paths,
         r[1] # "truncate" => r[2] # <<>>, removal_errno(r) = 0
  PROVE  Condemned(r[1], r[2])
<1> DEFINE p   == r[2]
           i   == path2inum(p)
           par == path2inum(Front(p))
<1>0. S_ISDIR(RootInum)
  BY RootIsDir
<1>1. CASE r[1] = "unlink"
  <2>1. parent_errno(p) = 0 /\ ~S_ISDIR(i) /\ p # <<>>
    BY <1>1 DEF removal_errno, unlink_errno, EISDIR
  <2>2. i \in Linked(disk)
    BY <2>1, RemoveAllowed
  <2>3. disk[i].type = "file" /\ i \in Blk /\ i > 0 /\ disk[i] \in Inode
    BY <2>1, <2>2, LinkedNode DEF Inode, FileTypes, S_ISDIR
  <2>4. par \in Linked(disk) /\ S_ISDIR(par)
    BY <2>1, <2>2, Found
  <2>. QED BY <1>0, <1>1, <2>1, <2>2, <2>3, <2>4 DEF Condemned, Hollow
<1>2. CASE r[1] = "rmdir"
  <2>1. parent_errno(p) = 0 /\ S_ISDIR(i) /\ FreeSlots(Dirs(i)) = Slots /\ p # <<>>
    BY <1>2 DEF removal_errno, rmdir_errno, ENOTDIR, ENOTEMPTY
  <2>2. i \in Linked(disk)
    BY <2>1, RemoveAllowed
  <2>3. \A k \in Slots : ~Dirs(i)[k].valid
    BY <2>1 DEF FreeSlots
  <2>4. Hollow(disk, i)
    BY <2>3 DEF Hollow, IsEntry, Dirs, DirBlkOf
  <2>5. /\ par \in Linked(disk) /\ S_ISDIR(par) /\ par # i
        /\ \E k \in Slots : Dirs(par)[k].valid /\ Dirs(par)[k].inode = i
    BY <2>1, <2>2, <2>3, Found
  <2>6. i # RootInum
    BY <2>5, EntryLinked
  <2>7. i \in Blk /\ i > 0 /\ disk[i] \in Inode
    BY <2>2, LinkedNode
  <2>. QED BY <1>2, <2>1, <2>2, <2>4, <2>5, <2>6, <2>7 DEF Condemned, S_ISDIR
<1>3. CASE r[1] = "truncate"
  <2>1. file_errno(p) = 0
    BY <1>3 DEF removal_errno, EINVAL
  <2>2. i \in Linked(disk) /\ disk[i].type = "file"
    BY <2>1, FileFound
  <2>3. i \in Blk /\ i > 0 /\ disk[i] \in Inode
    BY <2>2, LinkedNode
  <2>. QED BY <1>0, <1>3, <2>2, <2>3 DEF Condemned, Hollow, S_ISDIR
<1>. QED BY <1>1, <1>2, <1>3 DEF Removing

LEMMA HalfwayFacts ==
  ASSUME Halfway
  PROVE  /\ Walkable /\ Condemned(req[1], req[2])
         /\ SoundImage(map \cup Owned(disk, Victim), disk)
<1>1. Walkable
  BY HalfwayWalkable DEF Halfway
<1>2. Condemned(req[1], req[2])
  BY <1>1, RemovalAllowed DEF Halfway, Removable
<1>. QED BY <1>1, <1>2 DEF Halfway

\* The blocks to free, and the inode itself, are what the inode owns.
LEMMA FreedBlocks ==
  ASSUME Walkable, NEW h, NEW p, Condemned(h, p)
  PROVE  LET i == path2inum(p)
             N == IF h = "rmdir" THEN 1 ELSE nblocks(disk[i])
         IN  /\ N \in 0 .. NumPtrs
             /\ UsedPtrs(disk[i]) = 0 .. N - 1
             /\ Owned(disk, i) = {i} \cup {disk[i].ptrs[q] : q \in 0 .. N - 1}
             /\ \A q \in 0 .. N - 1 : disk[i].ptrs[q] # i /\ disk[i].ptrs[q] \in Blk
<1> DEFINE i == path2inum(p)
           N == IF h = "rmdir" THEN 1 ELSE nblocks(disk[i])
<1>1. i \in Linked(disk) /\ disk[i] \in Inode
      /\ disk[i].type = (IF h = "rmdir" THEN "dir" ELSE "file")
  BY DEF Condemned
<1>2. N \in 0 .. NumPtrs
  BY <1>1, BlocksOfInode, SizesAssumption
<1>3. UsedPtrs(disk[i]) = 0 .. N - 1
  <2>1. CASE h = "rmdir"
    <3>1. 0 .. N - 1 = {0}
      BY <2>1
    <3>. QED BY <1>1, <2>1, <3>1 DEF UsedPtrs
  <2>2. CASE h # "rmdir"
    BY <1>1, <2>2 DEF UsedPtrs
  <2>. QED BY <2>1, <2>2
<1>4. InodeSound(Blk, disk, i)
  BY <1>1 DEF Walkable, SoundImage, AllSound
<1> HIDE DEF N, i
<1>5. \A q \in 0 .. N - 1 : disk[i].ptrs[q] # i /\ disk[i].ptrs[q] \in Blk
  BY <1>1, <1>3, <1>4 DEF InodeSound
<1>. QED BY <1>2, <1>3, <1>5 DEF Owned, N, i

\* The parent's inode is copied by unlink and rmdir only.
ParentOf(r) == IF r[1] = "truncate" THEN RootInum ELSE path2inum(Front(r[2]))

IsRemoval(r) == r[1] \in Removing /\ r[2] \in Paths /\ (r[1] # "truncate" => r[2] # <<>>)

LEMMA RemovalBegins ==
  ASSUME StepInv, NEW r, Take(r), ~strayed', IsRemoval(r), removal_errno(r) = 0,
         Begin(Call("free", path2inum(r[2]), disk[path2inum(r[2])], ParentOf(r)))
  PROVE  StepInv' /\ KeepInv'
<1> DEFINE i   == path2inum(r[2])
           par == ParentOf(r)
           c   == Call("free", i, disk[i], par)
<1>1. /\ op = Idle /\ req' = r /\ Resting
      /\ r[1] \in Removing /\ r[2] \in Paths /\ (r[1] # "truncate" => r[2] # <<>>)
  BY DEF Take, StepInv, IsRemoval
<1>2. op' = c /\ map' = map /\ disk' = disk
  BY DEF Begin
<1>3. /\ Walkable
      /\ SoundImage(map \cup Owned(disk, i), disk)
      /\ r[1] = "truncate" => i \in map
  <2>1. CASE Sound
    <3>1. i \in Linked(disk)
      BY <1>1, <2>1, RemovalAllowed DEF Condemned
    <3>2. i \in map /\ Owned(disk, i) \subseteq map
      BY <2>1, <3>1, LinkedInode, SoundOwned DEF Sound
    <3>3. map \cup Owned(disk, i) = map
      BY <3>2
    <3>. QED BY <2>1, <3>2, <3>3 DEF Sound
  <2>2. CASE redo /\ Halfway
    <3>1. req = r
      BY <2>2 DEF Take
    <3>. QED BY <2>2, <3>1, HalfwayFacts DEF Halfway, Victim
  <2>. QED BY <1>1, <2>1, <2>2 DEF Resting
<1>4. Condemned(r[1], r[2])
  BY <1>1, <1>3, RemovalAllowed
<1>5. par \in Blk /\ disk[par] \in Inode /\ i \in Blk /\ disk[i] \in Inode
  <2>1. par \in Linked(disk)
    BY <1>3, <1>4, RootIsDir DEF Condemned, ParentOf
  <2>. QED BY <1>3, <1>4, <2>1, LinkedNode DEF Condemned
<1>6. /\ c \in Locals /\ c.pc = "free" /\ c.i = i /\ c.node = disk[i]
      /\ c.par = par /\ c.pnode = disk[par] /\ c.q = 0
  <2>1. "free" \in Stages
    BY DEF Stages
  <2> HIDE DEF i, par
  <2>. QED BY <1>5, <2>1, CallTypes, InodeIsNode
<1>7. Victim' = i /\ removal_errno(r)' = 0 /\ path2inum(Front(r[2]))' = path2inum(Front(r[2]))
  BY <1>1, <1>2, SamePaths, SameChecks DEF Victim
<1> HIDE DEF c
<1>8. Removable'
  BY <1>1 DEF Removable
<1>9. Halfway'
  <2>1. removal_errno(req)' = 0
    BY <1>1, <1>7 DEF removal_errno
  <2>. QED BY <1>1, <1>2, <1>3, <1>7, <1>8, <2>1 DEF Halfway
<1>10. CopiesRead'
  BY <1>1, <1>2, <1>6, <1>7 DEF CopiesRead, ParentOf
<1>11. ToFree' \in Nat
  <2>1. nblocks(disk[i]) \in Nat
    BY <1>5, BlocksOfInode
  <2>2. nblocks(op'.node) = nblocks(disk[i])
    BY <1>2, <1>6
  <2>. QED BY <2>1, <2>2 DEF ToFree
<1>12. Freeing'
  BY <1>2, <1>6, <1>9, <1>10, <1>11 DEF Freeing
<1>. QED BY <1>1, <1>6, <1>8, <1>12, Begun DEF InStage, c

LEMMA RemovalRefused ==
  ASSUME StepInv, NEW r, Take(r), ~strayed', removal_errno(r) # 0,
         NEW e \in Results, Refuse(e)
  PROVE  StepInv' /\ KeepInv'
<1>1. Sound
  BY DEF StepInv, Resting, Take, Halfway
<1>. QED BY <1>1, Refused

LEMMA UnlinkBegins ==
  ASSUME StepInv, NEW p \in Paths, p # <<>>, unlink_begin(p), ~strayed'
  PROVE  StepInv' /\ KeepInv'
<1> DEFINE r == <<"unlink", p>>
<1>1. Take(r) /\ IsRemoval(r) /\ r[2] = p /\ removal_errno(r) = unlink_errno(p)
      /\ ParentOf(r) = path2inum(Front(p))
  BY DEF unlink_begin, IsRemoval, Removing, removal_errno, ParentOf
<1> HIDE DEF r
<1>2. CASE unlink_errno(p) # 0 /\ Refuse(unlink_errno(p))
  BY <1>1, <1>2, ErrnoTypes, RemovalRefused
<1>3. CASE /\ unlink_errno(p) = 0
           /\ Begin(Call("free", path2inum(p), disk[path2inum(p)], path2inum(Front(p))))
  BY <1>1, <1>3, RemovalBegins
<1>. QED BY <1>2, <1>3 DEF unlink_begin

LEMMA RmdirBegins ==
  ASSUME StepInv, NEW p \in Paths, p # <<>>, rmdir_begin(p), ~strayed'
  PROVE  StepInv' /\ KeepInv'
<1> DEFINE r == <<"rmdir", p>>
<1>1. Take(r) /\ IsRemoval(r) /\ r[2] = p /\ removal_errno(r) = rmdir_errno(p)
      /\ ParentOf(r) = path2inum(Front(p))
  BY DEF rmdir_begin, IsRemoval, Removing, removal_errno, ParentOf
<1> HIDE DEF r
<1>2. CASE rmdir_errno(p) # 0 /\ Refuse(rmdir_errno(p))
  BY <1>1, <1>2, ErrnoTypes, RemovalRefused
<1>3. CASE /\ rmdir_errno(p) = 0
           /\ Begin(Call("free", path2inum(p), disk[path2inum(p)], path2inum(Front(p))))
  BY <1>1, <1>3, RemovalBegins
<1>. QED BY <1>2, <1>3 DEF rmdir_begin

LEMMA TruncateBegins ==
  ASSUME StepInv, NEW p \in Paths, NEW len, truncate_begin(p, len), ~strayed'
  PROVE  StepInv' /\ KeepInv'
<1> DEFINE r == <<"truncate", p, len>>
<1>1. Take(r) /\ IsRemoval(r) /\ r[2] = p /\ ParentOf(r) = RootInum
      /\ removal_errno(r) = IF len # 0 THEN -EINVAL ELSE file_errno(p)
  BY DEF truncate_begin, IsRemoval, Removing, removal_errno, ParentOf
<1> HIDE DEF r
<1>2. CASE len # 0 /\ Refuse(-EINVAL)
  <2>1. removal_errno(r) # 0
    BY <1>1, <1>2 DEF EINVAL
  <2>. QED BY <1>1, <1>2, <2>1, ErrnoTypes, RemovalRefused
<1>3. CASE len = 0 /\ file_errno(p) # 0 /\ Refuse(file_errno(p))
  BY <1>1, <1>3, ErrnoTypes, RemovalRefused
<1>4. CASE /\ len = 0 /\ file_errno(p) = 0
           /\ Begin(Call("free", path2inum(p), disk[path2inum(p)], RootInum))
  BY <1>1, <1>4, RemovalBegins
<1>. QED BY <1>2, <1>3, <1>4 DEF truncate_begin

\* Freeing one more block of the victim leaves it half removed.
LEMMA FreeSome ==
  ASSUME Halfway, NEW S, S \subseteq Owned(disk, Victim),
         req[1] = "truncate" => Victim \notin S,
         map' = map \ S, disk' = disk, req' = req
  PROVE  /\ Halfway' /\ Victim' = Victim
         /\ path2inum(Front(req[2]))' = path2inum(Front(req[2]))
         /\ map' \subseteq Blk /\ disk' \in [Blk -> Content] /\ Carries
<1>1. /\ Victim' = Victim /\ removal_errno(req)' = removal_errno(req)
      /\ path2inum(Front(req[2]))' = path2inum(Front(req[2]))
  BY SamePaths, SameChecks DEF Victim, removal_errno
<1>2. map' \cup Owned(disk, Victim) = map \cup Owned(disk, Victim)
  OBVIOUS
<1>3. SoundImage(map' \cup Owned(disk, Victim), disk)
  BY <1>2 DEF Halfway
<1>4. Halfway'
  BY <1>1, <1>3 DEF Halfway, Removable
<1>5. map' \subseteq Blk /\ disk' \in [Blk -> Content]
  BY <1>3, HalfwayTypes
<1>6. Carries
  BY DEF Carries, Halfway, Removable
<1>. QED BY <1>1, <1>4, <1>5, <1>6

\* How many blocks there are to free.
LEMMA ToFreeFacts ==
  ASSUME Halfway, CopiesRead
  PROVE  /\ ToFree \in 0 .. NumPtrs
         /\ Owned(disk, Victim) = {Victim} \cup {op.node.ptrs[q] : q \in 0 .. ToFree - 1}
         /\ \A q \in 0 .. ToFree - 1 : op.node.ptrs[q] # Victim
         /\ op.i = Victim /\ op.node = disk[Victim]
<1>1. Walkable /\ Condemned(req[1], req[2])
  BY HalfwayFacts
<1>2. op.i = Victim /\ op.node = disk[path2inum(req[2])]
  BY DEF CopiesRead, Victim
<1>. QED BY <1>1, <1>2, FreedBlocks DEF ToFree, Victim

LEMMA FreeBlockKeeps ==
  ASSUME StepInv, Freeing, free_block
  PROVE  StepInv' /\ Carries
<1> DEFINE x == op.node.ptrs[op.q]
           l == [op EXCEPT !.q = @ + 1]
<1>1. /\ op # Idle /\ op \in Locals /\ op.q \in Nat /\ op.q < ToFree
      /\ map' = map \ {x} /\ disk' = disk /\ Go(l) /\ Halfway /\ CopiesRead
  BY NodeTypes DEF free_block, At, StepInv, Freeing, free_blk, bit_clear
<1>2. /\ ToFree \in 0 .. NumPtrs
      /\ Owned(disk, Victim) = {Victim} \cup {op.node.ptrs[q] : q \in 0 .. ToFree - 1}
      /\ \A q \in 0 .. ToFree - 1 : op.node.ptrs[q] # Victim
  BY <1>1, ToFreeFacts
<1>3. op.q \in 0 .. ToFree - 1
  BY <1>1, <1>2
<1>4. {x} \subseteq Owned(disk, Victim) /\ Victim \notin {x}
  BY <1>2, <1>3
<1>5. op' = l /\ req' = req
  BY <1>1 DEF Go
<1>6. /\ Halfway' /\ Victim' = Victim
      /\ path2inum(Front(req[2]))' = path2inum(Front(req[2]))
      /\ map' \subseteq Blk /\ disk' \in [Blk -> Content] /\ Carries
  <2> HIDE DEF x
  <2>. QED BY <1>1, <1>4, <1>5, FreeSome
<1>7. /\ l \in Locals /\ l.pc = op.pc /\ l.i = op.i /\ l.node = op.node
      /\ l.par = op.par /\ l.pnode = op.pnode /\ l.q = op.q + 1
  BY <1>1, SetQ
<1> HIDE DEF l
<1>8. CopiesRead'
  BY <1>1, <1>5, <1>6, <1>7 DEF CopiesRead
<1>9. ToFree' = ToFree
  BY <1>5, <1>7 DEF ToFree
<1>10. \A r \in 0 .. op.q : op.node.ptrs[r] \notin map'
  BY <1>1 DEF Freeing
<1>11. Freeing'
  <2>1. op'.q <= ToFree'
    BY <1>1, <1>2, <1>5, <1>7, <1>9
  <2>2. 0 .. op'.q - 1 = 0 .. op.q
    BY <1>1, <1>5, <1>7
  <2>3. \A r \in 0 .. op'.q - 1 : op'.node.ptrs[r] \notin map'
    BY <1>5, <1>7, <1>10, <2>2
  <2>. QED BY <1>5, <1>6, <1>7, <1>8, <2>1, <2>3 DEF Freeing
<1>12. StepInv'
  BY <1>1, <1>6, <1>7, <1>11, Runs DEF InStage
<1>. QED BY <1>6, <1>12

LEMMA FreeInodeKeeps ==
  ASSUME StepInv, Freeing, free_inode
  PROVE  StepInv' /\ Carries
<1> DEFINE l == [op EXCEPT !.pc = "clear"]
<1>1. /\ op # Idle /\ op \in Locals /\ op.q = ToFree /\ req[1] # "truncate"
      /\ map' = map \ {op.i} /\ disk' = disk /\ Go(l) /\ Halfway /\ CopiesRead
  BY DEF free_inode, At, StepInv, Freeing, free_blk, bit_clear
<1>2. /\ Owned(disk, Victim) = {Victim} \cup {op.node.ptrs[q] : q \in 0 .. ToFree - 1}
      /\ op.i = Victim
  BY <1>1, ToFreeFacts
<1>3. op' = l /\ req' = req
  BY <1>1 DEF Go
<1>4. /\ Halfway' /\ Victim' = Victim
      /\ path2inum(Front(req[2]))' = path2inum(Front(req[2]))
      /\ map' \subseteq Blk /\ disk' \in [Blk -> Content] /\ Carries
  BY <1>1, <1>2, <1>3, FreeSome
<1>5. /\ l \in Locals /\ l.pc = "clear" /\ l.i = op.i /\ l.node = op.node
      /\ l.par = op.par /\ l.pnode = op.pnode
  <2>1. "clear" \in Stages
    BY DEF Stages
  <2>. QED BY <1>1, <2>1, SetPc
<1> HIDE DEF l
<1>6. CopiesRead'
  BY <1>1, <1>3, <1>4, <1>5 DEF CopiesRead
<1>7. Owned(disk, Victim) \cap map' = {}
  BY <1>1, <1>2 DEF Freeing
<1>8. Clearing'
  BY <1>1, <1>3, <1>4, <1>5, <1>6, <1>7 DEF Clearing
<1>9. StepInv'
  BY <1>1, <1>4, <1>5, <1>8, Runs DEF InStage
<1>. QED BY <1>4, <1>9

\* Once the entry is gone all of the image is sound.
LEMMA ClearEntryKeeps ==
  ASSUME StepInv, Clearing, clear_entry
  PROVE  StepInv' /\ Carries
<1> DEFINE p   == req[2]
           i   == op.i
           par == op.par
           b   == op.pnode.ptrs[0]
           K   == {k \in Slots : disk[b].ents[k].valid /\ disk[b].ents[k].inode = i}
           k   == Min(K)
           l   == [op EXCEPT !.pc = "stamp"]
           O   == Owned(disk, i)
<1>1. op # Idle /\ op \in Locals /\ Go(l)
  BY Zenon DEF clear_entry, At, StepInv
<1>1a. block_write(b, IF K = {} THEN disk[b] ELSE [disk[b] EXCEPT !.ents[k] = EmptySlot])
  BY Zenon DEF clear_entry
<1>2. /\ i = path2inum(p) /\ par = path2inum(Front(p)) /\ op.pnode = disk[par]
      /\ p \in Paths /\ p # <<>> /\ req[1] # "truncate" /\ req[1] \in Removing
      /\ O \cap map = {}
  BY DEF Clearing, CopiesRead, Victim, Halfway, Removable
<1>3. /\ Walkable /\ SoundImage(map \cup O, disk)
      /\ i \in Linked(disk) /\ Hollow(disk, i)
      /\ par \in Linked(disk) /\ S_ISDIR(par) /\ par # i
  BY <1>2, HalfwayFacts DEF Clearing, Condemned, Victim
<1>4. /\ b = DirBlkOf(par) /\ b \in Blk /\ disk[b].kind = "dir" /\ Dirs(par) = disk[b].ents
      /\ disk \in [Blk -> Content]
  BY <1>2, <1>3, DirNode DEF DirBlkOf, Dirs, SoundImage
<1>5. K # {} /\ k \in Slots /\ disk[b].ents[k].valid /\ disk[b].ents[k].inode = i
  <2> DEFINE J == {s \in Slots : Dirs(par)[s].valid /\ Dirs(par)[s].inode = path2inum(p)}
  <2> HIDE DEF p, i, par, b
  <2>1. J # {} /\ Min(J) \in Slots /\ Dirs(par)[Min(J)].valid /\ Dirs(par)[Min(J)].inode = path2inum(p)
    BY <1>2, <1>3, RemovedSlot
  <2>2. J = K
    BY <1>2, <1>4
  <2> HIDE DEF J, K
  <2>. QED BY <1>2, <1>4, <2>1, <2>2
<1> HIDE DEF K, k, b, i, par, p, O
<1>6. SlotSet(disk, disk', b, k, EmptySlot) /\ map' = map
  BY <1>1a, <1>5 DEF SlotSet, block_write
<1>7. EmptySlot \in Dirent /\ ~EmptySlot.valid
  BY DEF EmptySlot, Dirent
<1>8. /\ l \in Locals /\ l.pc = "stamp" /\ l.par = par /\ l.pnode = op.pnode
  <2>1. "stamp" \in Stages
    BY DEF Stages
  <2>. QED BY <1>1, <2>1, SetPc DEF par
<1>9. op' = l /\ req' = req
  BY <1>1 DEF Go
<1> HIDE DEF l
<1>10. /\ EntsChanged(disk, disk', b) /\ disk'[b].ents[k] = EmptySlot
       /\ \A s \in Slots : s # k => disk'[b].ents[s] = disk[b].ents[s]
  BY <1>4, <1>5, <1>6, <1>7, NewEnt
<1>11. Emptied(disk, disk', b, k) /\ IsEntry(disk, b, k)
  BY <1>4, <1>5, <1>7, <1>10 DEF Emptied, IsEntry
<1>12. /\ SoundImage((map \cup O) \ O, disk')
       /\ \A j \in Linked(disk) : j # i => j \in Linked(disk')
  BY <1>3, <1>4, <1>5, <1>10, <1>11, Detach DEF O
<1>13. (map \cup O) \ O = map
  BY <1>2
<1>14. Sound'
  BY <1>6, <1>12, <1>13 DEF Sound
<1>15. \A j \in Linked(disk) : disk'[j] = disk[j] /\ Owned(disk', j) = Owned(disk, j)
  <2> SUFFICES ASSUME NEW j \in Linked(disk)
               PROVE  disk'[j] = disk[j] /\ Owned(disk', j) = Owned(disk, j)
    OBVIOUS
  <2> DEFINE m == map \cup O
  <2>1. j \in Blk /\ SoundImage(m, disk)
    BY <1>3, LinkedNode
  <2> HIDE DEF m
  <2>2. InodeSound(m, disk, j) /\ Owned(disk, j) \subseteq m /\ m \in SUBSET Blk
    BY <2>1, SoundOwned DEF SoundImage
  <2>. QED BY <2>1, <2>2, <1>10, EntsKeepInodes
<1>16. ParentRead'
  <2>1. disk'[par] = disk[par] /\ par \in Linked(disk') /\ disk[par].type = "dir"
    BY <1>3, <1>12, <1>15 DEF S_ISDIR
  <2>. QED BY <2>1, <1>2, <1>8, <1>9 DEF ParentRead, S_ISDIR
<1>17. Stamping'
  BY <1>2, <1>8, <1>9, <1>14, <1>16 DEF Stamping, p
<1>18. StepInv'
  <2>1. map' \subseteq Blk /\ disk' \in [Blk -> Content]
    BY <1>14 DEF Sound, SoundImage
  <2>. QED BY <1>1, <1>8, <1>17, <2>1, Runs DEF InStage, l
<1>19. map \cap InUse(disk) \subseteq InUse(disk')
  BY <1>2, <1>12, <1>15 DEF InUse, O
<1>. QED BY <1>6, <1>2, <1>18, <1>19 DEF Carries

LEMMA StampParentKeeps ==
  ASSUME StepInv, Stamping, NEW now \in Times, stamp_parent(now)
  PROVE  StepInv' /\ KeepInv'
<1> DEFINE par == op.par
           in  == [disk[par] EXCEPT !.mtime = now]
<1>1. Sound /\ par \in Linked(disk) /\ op.pnode = disk[par]
  BY DEF Stamping, ParentRead
<1>2. disk' = [disk EXCEPT ![par] = in] /\ map' = map /\ End(0)
  BY <1>1 DEF stamp_parent, block_write
<1>3. disk[par] \in Inode
  BY <1>1, LinkedInode
<1>4. SameShape(disk, par, in)
  BY <1>3, SetMtime
<1> HIDE DEF in, par
<1>5. SoundImage(map, [disk EXCEPT ![par] = in])
  BY <1>1, <1>4, Touch DEF SameShape, Sound
<1>6. Sound'
  BY <1>2, <1>5 DEF Sound
<1>. QED BY <1>2, <1>6, Ended DEF Results

LEMMA TruncateInodeKeeps ==
  ASSUME StepInv, Freeing, truncate_inode
  PROVE  StepInv' /\ KeepInv'
<1> DEFINE i  == op.i
           in == [disk[i] EXCEPT !.size = 0]
           P  == {disk[i].ptrs[q] : q \in 0 .. ToFree - 1}
           O  == Owned(disk, i)
<1>1. /\ req[1] = "truncate" /\ op.q = ToFree /\ Halfway /\ CopiesRead
      /\ block_write(i, [op.node EXCEPT !.size = 0]) /\ End(0)
  BY DEF truncate_inode, Freeing
<1>2. /\ i = Victim /\ op.node = disk[i] /\ O = {i} \cup P
      /\ \A q \in 0 .. ToFree - 1 : disk[i].ptrs[q] # i
  BY <1>1, ToFreeFacts
<1>3. /\ SoundImage(map \cup O, disk) /\ i \in map
      /\ i \in Linked(disk) /\ disk[i].type = "file" /\ disk[i] \in Inode
  BY <1>1, <1>2, HalfwayFacts DEF Halfway, Condemned, Victim
<1>4. disk' = [disk EXCEPT ![i] = in] /\ map' = map
  BY <1>1, <1>2 DEF block_write
<1>5. in \in Inode /\ in.type = "file" /\ in.size = 0
  BY <1>3, Sizes DEF Inode
<1>6. {disk[i].ptrs[q] : q \in UsedPtrs(disk[i])} = P
  <2>1. UsedPtrs(disk[i]) = 0 .. ToFree - 1
    BY <1>1, <1>2, <1>3 DEF UsedPtrs, ToFree
  <2>. QED BY <2>1
<1>7. P \cap map = {} /\ i \notin P
  BY <1>1, <1>2 DEF Freeing
<1> HIDE DEF in, P, i, O
<1>8. SoundImage((map \cup O) \ P, [disk EXCEPT ![i] = in])
  BY <1>3, <1>5, <1>6, Cut
<1>9. (map \cup O) \ P = map
  BY <1>2, <1>3, <1>7
<1>10. Sound'
  BY <1>4, <1>8, <1>9 DEF Sound
<1>. QED BY <1>1, <1>10, Ended DEF Results

-----------------------------------------------------------------------------
(***************************************************************************)
(* fs_write.                                                               *)
(***************************************************************************)
LEMMA LtQuotient ==
  ASSUME NEW x \in Nat, NEW y \in Nat, NEW b \in Nat \ {0}, x * b < y * b
  PROVE  x < y
OBVIOUS

LEMMA MinOfTwo ==
  ASSUME NEW x \in Nat, NEW y \in Nat
  PROVE  /\ Min({x, y}) \in Nat /\ Min({x, y}) <= x /\ Min({x, y}) <= y
         /\ Min({x, y}) = x \/ Min({x, y}) = y
<1> DEFINE m == IF x <= y THEN x ELSE y
<1>1. m \in {x, y} /\ \A z \in {x, y} : m <= z
  OBVIOUS
<1>2. Min({x, y}) \in {x, y} /\ \A z \in {x, y} : Min({x, y}) <= z
  BY <1>1 DEF Min
<1>. QED BY <1>2

\* A write that is allowed begins within the blocks of the file, or right
\* after them.
LEMMA FirstTouched ==
  ASSUME NEW in \in Inode, NEW off \in Nat, off <= in.size
  PROVE  off \div BlockSize \in Nat /\ off \div BlockSize <= nblocks(in)
<1> DEFINE q == off \div BlockSize
           N == nblocks(in)
<1>1. in.size \in Nat
  BY DEF Inode
<1>2. q \in Nat /\ q * BlockSize <= off
  BY DivFacts, SizesAssumption
<1>3. N \in Nat /\ in.size <= N * BlockSize
  BY <1>1, RoundUp, SizesAssumption DEF nblocks
<1> HIDE DEF q, N
<1>4. q * BlockSize < N * BlockSize + BlockSize
  <2>1. q * BlockSize \in Nat /\ N * BlockSize \in Nat
    BY <1>2, <1>3, SizesAssumption
  <2>. QED BY <1>1, <1>2, <1>3, <2>1, SizesAssumption
<1>5. q <= N
  BY <1>2, <1>3, <1>4, LeQuotient, SizesAssumption
<1>. QED BY <1>2, <1>5 DEF q, N

LEMMA WriteBegins ==
  ASSUME StepInv, NEW p \in Paths, NEW off \in Offsets, NEW len \in Lengths,
         write_begin(p, off, len), ~strayed'
  PROVE  StepInv' /\ KeepInv'
<1> DEFINE r == <<"write", p, off, len>>
           i == path2inum(p)
           k == Call("loop", i, disk[i], RootInum)
           l == [k EXCEPT !.q = off \div BlockSize, !.block_offset = off % BlockSize]
<1>1. Take(r) /\ r[1] = "write" /\ r[3] = off /\ r[4] = len /\ "write" \notin Removing
      /\ off \in Nat /\ len \in Nat
  BY RequestAssumption DEF write_begin, Removing
<1>2. Sound /\ ~redo /\ op = Idle /\ req' = r
  BY <1>1, TakenSound
<1>3. CASE ~write_allowed(p, off, len) /\ Refuse(write_answer(p, off, len))
  <2>1. write_answer(p, off, len) \in Results
    <3>1. 0 \in Results
      BY DEF Results
    <3>. QED BY <3>1, ErrnoTypes DEF write_answer
  <2>. QED BY <1>2, <1>3, <2>1, Refused
<1>4. CASE write_allowed(p, off, len) /\ Begin(l)
  <2>1. /\ i \in Linked(disk) /\ disk[i].type = "file" /\ disk[i] \in Inode
        /\ off <= disk[i].size /\ off + len <= MaxFile /\ i \in Blk
    BY <1>1, <1>2, <1>4, WriteAllowed, LinkedInode
  <2>2. RootInum \in Blk /\ disk[RootInum] \in Inode
    BY <1>2, RootIsDir, LinkedInode
  <2>3. /\ k \in Locals /\ k.pc = "loop" /\ k.i = i /\ k.node = disk[i] /\ k.nread = 0
    <3>1. "loop" \in Stages
      BY DEF Stages
    <3> HIDE DEF i
    <3>. QED BY <2>1, <2>2, <3>1, CallTypes, InodeIsNode
  <2> DEFINE q == off \div BlockSize
             o == off % BlockSize
  <2>4. /\ q \in Nat /\ o \in Nat /\ o < BlockSize /\ q * BlockSize + o = off
    BY <1>1, SizesAssumption
  <2>5. q <= nblocks(disk[i])
    BY <1>1, <2>1, FirstTouched
  <2> HIDE DEF k, q, o
  <2>6. /\ l \in Locals /\ l.pc = "loop" /\ l.i = i /\ l.node = disk[i] /\ l.nread = 0
        /\ l.q = q /\ l.block_offset = o
    BY <2>3, <2>4 DEF Locals, q, o
  <2>7. op' = l /\ map' = map /\ disk' = disk
    BY <1>4 DEF Begin
  <2> HIDE DEF l, i
  <2>8. NewIdx' = {} /\ NewBlks' = {}
    <3>1. nblocks(disk[i]) \in Nat
      BY <2>1, BlocksOfInode
    <3>2. (nblocks(disk[i])) .. (q - 1) = {}
      BY <2>4, <2>5, <3>1
    <3>3. NewIdx' = {}
      BY <2>6, <2>7, <3>2 DEF NewIdx, FirstNew
    <3>. QED BY <3>3 DEF NewBlks
  <2>9. Held(map', disk', {})
    BY DEF Held, Spare
  <2>10. NodeRead'
    BY <2>1, <2>6, <2>7 DEF NodeRead
  <2>11. Position'
    BY <1>1, <1>2, <2>1, <2>4, <2>6, <2>7 DEF Position, Reached, offset, length
  <2>12. Sound'
    BY <1>2, <2>7 DEF Sound
  <2>13. Writing'
    BY <1>1, <1>2, <2>1, <2>6, <2>7, <2>8, <2>9, <2>10, <2>11, <2>12 DEF Writing
  <2>. QED BY <1>2, <1>4, <2>6, <2>13, Begun DEF InStage
<1>. QED BY <1>3, <1>4 DEF write_begin

\* Where a handler of write is, in a state of its loop.
LEMMA WritingFacts ==
  ASSUME StepInv, op # Idle, Writing
  PROVE  /\ op \in Locals /\ Sound /\ op.i \in Linked(disk) /\ op.i \in Blk /\ op.i > 0
         /\ disk[op.i].type = "file" /\ disk[op.i] \in Inode
         /\ nblocks(op.node) = FirstNew /\ FirstNew \in 0 .. NumPtrs
         /\ op.q \in Nat /\ op.nread \in Nat /\ op.block_offset \in Nat
         /\ offset \in Nat /\ length \in Nat
         /\ op.nread < length => op.q \in PtrIdx
<1>1. op \in Locals /\ Sound /\ op.i \in Linked(disk) /\ disk[op.i].type = "file"
  BY DEF StepInv, Writing
<1>2. op.i \in Blk /\ op.i > 0 /\ disk[op.i] \in Inode
  BY <1>1, LinkedInode
<1>3. nblocks(op.node) = FirstNew
  BY DEF nblocks, FirstNew, Writing, NodeRead
<1>4. FirstNew \in 0 .. NumPtrs
  BY <1>2, BlocksOfInode DEF FirstNew
<1>5. op.q \in Nat /\ op.nread \in Nat /\ op.block_offset \in Nat
  BY <1>1, NodeTypes
<1>6. offset \in Nat /\ length \in Nat
  BY DEF Writing, Position
<1>7. ASSUME op.nread < length PROVE op.q \in PtrIdx
  <2> DEFINE q == op.q
  <2>1. q * BlockSize + op.block_offset = offset + op.nread /\ offset + length <= MaxFile
    BY <1>7 DEF Writing, Position, Reached
  <2>2. q * BlockSize \in Nat /\ NumPtrs * BlockSize \in Nat /\ MaxFile = NumPtrs * BlockSize
    BY <1>5, SizesAssumption DEF MaxFile
  <2>3. q * BlockSize < NumPtrs * BlockSize
    BY <1>5, <1>6, <1>7, <2>1, <2>2
  <2>4. q < NumPtrs
    BY <1>5, <2>3, LtQuotient, SizesAssumption
  <2>. QED BY <1>5, <2>4, SizesAssumption DEF PtrIdx
<1>. QED BY <1>1, <1>2, <1>3, <1>4, <1>5, <1>6, <1>7

LEMMA AllocDataKeeps ==
  ASSUME StepInv, Writing, alloc_data
  PROVE  StepInv' /\ Carries
<1> DEFINE r == alloc_blk(map)
           q == op.q
           n == [op.node EXCEPT !.ptrs[q] = r]
           l == [op EXCEPT !.node = n, !.pc = "data"]
<1>1. op # Idle /\ op.pc = "loop" /\ op.nread < length /\ q >= nblocks(op.node) /\ Marked(r)
  BY DEF alloc_data, InLoop, At
<1>2. /\ op \in Locals /\ Sound /\ op.i \in Linked(disk)
      /\ q >= FirstNew /\ FirstNew \in Nat /\ q \in Nat /\ q \in PtrIdx
  BY <1>1, WritingFacts
<1>3. Go(l)
  <2>1. Go([op EXCEPT !.node.ptrs[q] = r, !.pc = "data"])
    BY DEF alloc_data
  <2>. QED BY <1>2, <2>1 DEF Locals
<1>4. /\ Sound' /\ disk' = disk /\ r \in Blk \cup {-ENOSPC} /\ map \subseteq map' /\ map' \subseteq Blk
      /\ \/ r = -ENOSPC /\ r < 0
         \/ r \in Blk /\ r > 2 /\ r \notin map /\ r \in map' /\ Spare(disk, {r})
  BY <1>1, <1>2, AllocStep
<1> HIDE DEF r
<1>5. /\ n \in Nodes /\ n.type = op.node.type /\ n.size = op.node.size /\ n.ptrs[q] = r
      /\ \A x \in PtrIdx : x # q => n.ptrs[x] = op.node.ptrs[x]
  <2>1. op.node \in Nodes
    BY <1>2, NodeTypes
  <2>2. q \in PtrIdx /\ r \in Blk \cup {-ENOSPC}
    BY <1>2, <1>4
  <2>. QED BY ONLY <2>1, <2>2 DEF Nodes
<1> HIDE DEF n
<1>6. /\ l \in Locals /\ l.pc = "data" /\ l.i = op.i /\ l.node = n /\ l.q = q
      /\ l.block_offset = op.block_offset /\ l.nread = op.nread
  <2>1. "data" \in Stages
    BY DEF Stages
  <2>2. op \in Locals /\ n \in Nodes
    BY <1>2, <1>5
  <2>. QED BY ONLY <2>1, <2>2 DEF Locals
<1>7. op' = l /\ req' = req
  BY <1>3 DEF Go
<1> HIDE DEF l
<1>8. FirstNew' = FirstNew /\ NewIdx' = NewIdx
  BY <1>4, <1>6, <1>7 DEF FirstNew, NewIdx
<1>9. \A x \in NewIdx : x \in PtrIdx /\ n.ptrs[x] = op.node.ptrs[x]
  <2>1. \A x \in NewIdx : x # q
    BY <1>2 DEF NewIdx
  <2>. QED BY <1>5, <2>1 DEF Writing
<1>10. NewBlks' = NewBlks
  BY <1>6, <1>7, <1>8, <1>9 DEF NewBlks
<1>11. Held(map', disk', NewBlks)
  BY <1>4 DEF Writing, Held
<1>12. NodeRead'
  <2>1. ASSUME NEW x \in PtrIdx, x < FirstNew \/ x > q PROVE n.ptrs[x] = disk[op.i].ptrs[x]
    BY <1>2, <1>5, <2>1 DEF Writing, NodeRead, PtrIdx
  <2>. QED BY <1>4, <1>5, <1>6, <1>7, <1>8, <2>1 DEF Writing, NodeRead
<1>13. Position'
  BY <1>4, <1>6, <1>7 DEF Writing, Position, offset, length
<1>14. /\ op'.nread < length' /\ op'.q >= FirstNew'
       /\ r \in Int
       /\ r > 0 => Held(map', disk', NewBlks \cup {r}) /\ r \notin NewBlks
  <2>1. op'.nread < length' /\ op'.q >= FirstNew'
    BY <1>1, <1>2, <1>6, <1>7, <1>8 DEF length
  <2>2. r \in Int
    BY <1>4 DEF Blk, ENOSPC
  <2>3. ASSUME r > 0 PROVE Held(map', disk', NewBlks \cup {r}) /\ r \notin NewBlks
    <3>1. r \in map' /\ r \notin map /\ Spare(disk, {r})
      BY <2>3, <1>4 DEF ENOSPC
    <3>2. Spare(disk, NewBlks) /\ NewBlks \subseteq map
      BY DEF Writing, Held
    <3>3. Spare(disk, NewBlks \cup {r})
      BY <3>1, <3>2, SpareUnion
    <3>. QED BY <1>4, <3>1, <3>2, <3>3 DEF Held
  <2>. QED BY <2>1, <2>2, <2>3
<1>15. op'.node.ptrs[op'.q] = r
  BY <1>5, <1>6, <1>7
<1>16. /\ \A x \in NewIdx' : disk'[op'.node.ptrs[x]] = Data'
       /\ \A x, y \in NewIdx' : op'.node.ptrs[x] = op'.node.ptrs[y] => x = y
  BY <1>4, <1>6, <1>7, <1>8, <1>9 DEF Writing, Data
<1>17. Writing'
  BY <1>2, <1>4, <1>6, <1>7, <1>8, <1>10, <1>11, <1>12, <1>13, <1>14, <1>15, <1>16 DEF Writing
<1>18. StepInv'
  <2>1. disk' \in [Blk -> Content]
    BY <1>4 DEF Sound, SoundImage
  <2>. QED BY <1>1, <1>3, <1>4, <1>6, <1>17, <2>1, Runs DEF InStage
<1>19. Carries
  BY <1>4 DEF Carries, Writing, Removing
<1>. QED BY <1>18, <1>19

\* Where the loop is after one more block.
LEMMA NextPosition ==
  ASSUME NEW off \in Nat, NEW len \in Nat, NEW q \in Nat, NEW o \in Nat, NEW n \in Nat,
         n < len, Reached(off, len, q, o, n), NEW x, x = Min({BlockSize - o, len - n})
  PROVE  x \in Nat /\ Reached(off, len, q + 1, 0, n + x)
<1> DEFINE B == BlockSize
<1>1. BlockSize - o \in Nat /\ len - n \in Nat
  BY SizesAssumption DEF Reached
<1>2. x \in Nat /\ x <= B - o /\ x <= len - n /\ (x = B - o \/ x = len - n)
  BY <1>1, MinOfTwo
<1>3. (q + 1) * B = q * B + B /\ q * B \in Nat /\ B \in Nat /\ 0 < B
  BY SizesAssumption
<1>4. q * B + o = off + n
  BY DEF Reached
<1> HIDE DEF B
<1>5. n + x < len => (q + 1) * B + 0 = off + (n + x)
  BY <1>2, <1>3, <1>4
<1>6. n + x = len => off + len <= (q + 1) * B
  BY <1>2, <1>3, <1>4
<1>. QED BY <1>2, <1>3, <1>5, <1>6 DEF Reached, B

\* Either a block of the file, which holds data already, or the new one.
LEMMA WriteDataKeeps ==
  ASSUME StepInv, Writing, write_data
  PROVE  StepInv' /\ (KeepInv' \/ Carries)
<1> DEFINE i   == op.i
           q   == op.q
           lba == op.node.ptrs[q]
           x   == Min({BlockSize - op.block_offset, length - op.nread})
           l   == [op EXCEPT !.nread = op.nread + x, !.q = q + 1,
                             !.block_offset = 0, !.pc = "loop"]
<1>1. /\ op # Idle /\ op.nread < length
      /\ op.pc = "data" \/ (op.pc = "loop" /\ q < nblocks(op.node))
  BY DEF write_data, InLoop, At, Writing
<1>2. /\ op \in Locals /\ Sound /\ i \in Linked(disk) /\ disk[i].type = "file"
      /\ disk[i] \in Inode /\ nblocks(op.node) = FirstNew /\ FirstNew \in Nat
      /\ q \in Nat /\ q \in PtrIdx /\ op.nread \in Nat /\ op.block_offset \in Nat
      /\ offset \in Nat /\ length \in Nat
  BY <1>1, WritingFacts
<1>3. CASE AssertFails(lba)
  BY <1>2, <1>3, Asserted
<1>4. CASE block_write(lba, Data) /\ Go(l)
  <2>1. x \in Nat /\ Reached(offset, length, q + 1, 0, op.nread + x)
    BY <1>1, <1>2, NextPosition DEF Writing, Position
  <2> HIDE DEF x
  <2>2. /\ l \in Locals /\ l.pc = "loop" /\ l.i = i /\ l.node = op.node /\ l.q = q + 1
        /\ l.block_offset = 0 /\ l.nread = op.nread + x
    <3>1. "loop" \in Stages /\ q + 1 \in Nat /\ 0 \in Nat /\ op.nread + x \in Nat /\ op \in Locals
      BY <1>2, <2>1 DEF Stages
    <3> DEFINE n == op.nread + x
               y == q + 1
    <3>2. n \in Nat /\ y \in Nat
      BY <3>1
    <3> HIDE DEF n, y
    <3>3. LET k == [op EXCEPT !.nread = n, !.q = y, !.block_offset = 0, !.pc = "loop"]
          IN  /\ k \in Locals /\ k.pc = "loop" /\ k.i = op.i /\ k.node = op.node /\ k.q = y
              /\ k.block_offset = 0 /\ k.nread = n
      BY ONLY <3>1, <3>2 DEF Locals
    <3>. QED BY ONLY <3>3 DEF n, y
  <2>3. op' = l /\ req' = req
    BY <1>4 DEF Go
  <2> HIDE DEF l
  <2> DEFINE NI == FirstNew .. q
             NB == {op.node.ptrs[r] : r \in NI}
  <2>4. /\ Sound' /\ map' = map /\ Linked(disk') = Linked(disk) /\ disk'[i] = disk[i]
        /\ InUse(disk') = InUse(disk)
        /\ NI \subseteq PtrIdx /\ Held(map', disk', NB)
        /\ \A r \in NI : disk'[op.node.ptrs[r]] = Data
        /\ \A r, s \in NI : op.node.ptrs[r] = op.node.ptrs[s] => r = s
        /\ \A r \in PtrIdx : r < FirstNew \/ r > q => op.node.ptrs[r] = disk[i].ptrs[r]
    <3>1. CASE op.pc = "data"
      <4>1. /\ q >= FirstNew /\ lba > 0
            /\ Held(map, disk, NewBlks \cup {lba}) /\ lba \notin NewBlks
        BY <3>1, <1>4 DEF Writing, block_write
      <4>2. NI = NewIdx \cup {q}
        BY <1>2, <4>1 DEF NewIdx
      <4>3. NB = NewBlks \cup {lba}
        BY <4>2 DEF NewBlks
      <4>4. Data \in Content /\ Data.kind # "dir"
        BY DEF Data, Content
      <4> HIDE DEF NB, lba
      <4>5. /\ Sound' /\ Held(map', disk', NB) /\ map' = map /\ disk'[lba] = Data
            /\ \A b \in Blk : b # lba => disk'[b] = disk[b]
            /\ Linked(disk') = Linked(disk)
            /\ \A j \in Linked(disk) : disk'[j] = disk[j] /\ Owned(disk', j) = Owned(disk, j)
            /\ InUse(disk') = InUse(disk)
        <5>1. lba \in NB /\ Held(map, disk, NB)
          BY <4>1, <4>3
        <5>. QED BY <1>2, <1>4, <4>4, <5>1, WriteHeld
      <4>6. \A r \in NewIdx : /\ op.node.ptrs[r] \in Blk /\ op.node.ptrs[r] # lba
                              /\ disk[op.node.ptrs[r]] = Data
        BY <4>1 DEF NewBlks, Held, Spare, Writing
      <4>7. \A r \in NI : disk'[op.node.ptrs[r]] = Data
        BY <4>2, <4>5, <4>6 DEF lba
      <4>8. \A r, s \in NI : op.node.ptrs[r] = op.node.ptrs[s] => r = s
        BY <4>2, <4>6 DEF Writing, lba
      <4>9. NI \subseteq PtrIdx
        BY <1>2, <4>2 DEF Writing
      <4>10. \A r \in PtrIdx : r < FirstNew \/ r > q => op.node.ptrs[r] = disk[i].ptrs[r]
        BY DEF Writing, NodeRead
      <4>. QED BY <1>2, <4>5, <4>7, <4>8, <4>9, <4>10
    <3>2. CASE op.pc = "loop" /\ q < FirstNew
      <4>1. NI = {} /\ NB = {}
        BY <1>2, <3>2
      <4>2. \A r \in PtrIdx : r < FirstNew \/ r > q => op.node.ptrs[r] = disk[i].ptrs[r]
        BY DEF Writing, NodeRead
      <4>3. lba = disk[i].ptrs[q] /\ q \in UsedPtrs(disk[i])
        BY <1>2, <3>2, <4>2 DEF UsedPtrs, FirstNew
      <4>4. lba \in Blk /\ disk[lba].kind = "data" /\ disk \in [Blk -> Content]
        BY <1>2, <4>3 DEF Sound, SoundImage, AllSound, InodeSound
      <4>5. disk[lba] = Data
        BY <4>4, ContentKinds
      <4>6. disk' = disk /\ map' = map
        BY <1>4, <4>4, <4>5 DEF block_write
      <4>7. Held(map', disk', {})
        BY DEF Held, Spare
      <4>8. Sound'
        BY <1>2, <4>6 DEF Sound
      <4> HIDE DEF NI, NB
      <4>. QED BY <4>1, <4>2, <4>6, <4>7, <4>8
    <3>. QED BY <1>1, <1>2, <3>1, <3>2
  <2>5. FirstNew' = FirstNew /\ NewIdx' = NI
    <3>1. FirstNew' = FirstNew
      BY <2>2, <2>3, <2>4 DEF FirstNew
    <3>2. op'.q - 1 = q
      BY <1>2, <2>2, <2>3
    <3>. QED BY <3>1, <3>2 DEF NewIdx
  <2>6. NewBlks' = NB
    BY <2>2, <2>3, <2>5 DEF NewBlks
  <2> HIDE DEF NI, NB
  <2>7. NodeRead'
    <3>1. \A r \in PtrIdx : r > q + 1 \/ r = q + 1 => r > q
      BY <1>2 DEF PtrIdx
    <3>. QED BY <2>2, <2>3, <2>4, <2>5, <3>1 DEF Writing, NodeRead
  <2>8. Position'
    <3>1. offset' = offset /\ length' = length /\ disk'[op'.i] = disk[i]
      BY <2>2, <2>3, <2>4 DEF offset, length
    <3>. QED BY <1>2, <2>1, <2>2, <2>3, <3>1 DEF Writing, Position
  <2>9. Data' = Data
    BY DEF Data
  <2>10. Writing'
    BY <1>2, <2>2, <2>3, <2>4, <2>5, <2>6, <2>7, <2>8, <2>9 DEF Writing
  <2>11. StepInv'
    <3>1. map' \subseteq Blk /\ disk' \in [Blk -> Content]
      BY <2>4 DEF Sound, SoundImage
    <3>. QED BY <1>1, <1>4, <2>2, <2>10, <3>1, Runs DEF InStage
  <2>12. Carries
    BY <2>4 DEF Carries, Writing, Removing
  <2>. QED BY <2>11, <2>12
<1>5. AssertFails(lba) \/ (block_write(lba, Data) /\ Go(l))
  BY DEF write_data
<1>. QED BY <1>3, <1>4, <1>5

\* The pointers of the new size are all assigned when the loop is done.
LEMMA NewSizeReached ==
  ASSUME NEW s \in Nat, NEW off \in Nat, NEW len \in Nat, NEW q \in Nat, NEW o \in Nat,
         off <= s, Reached(off, len, q, o, len), NEW t, t = IF off + len > s THEN off + len ELSE s
  PROVE  LET N == DIV_ROUND_UP(s, BlockSize)
             M == DIV_ROUND_UP(t, BlockSize)
         IN  t \in Nat /\ N \in Nat /\ M \in Nat /\ N <= M /\ (M = N \/ M <= q)
<1> DEFINE N == DIV_ROUND_UP(s, BlockSize)
           M == DIV_ROUND_UP(t, BlockSize)
           B == BlockSize
<1>1. t \in Nat /\ s <= t
  OBVIOUS
<1>2. /\ N \in Nat /\ s <= N * BlockSize /\ N * BlockSize < s + BlockSize
      /\ M \in Nat /\ t <= M * BlockSize /\ M * BlockSize < t + BlockSize
  BY <1>1, RoundUp, SizesAssumption
<1>3. q * B \in Nat /\ N * B \in Nat /\ M * B \in Nat /\ B \in Nat
  BY <1>2, SizesAssumption
<1> HIDE DEF N, M
<1>4. N <= M
  <2>1. N * BlockSize < M * BlockSize + BlockSize
    BY <1>1, <1>2, <1>3
  <2>. QED BY <1>2, <2>1, LeQuotient, SizesAssumption
<1>5. CASE t = s
  BY <1>1, <1>2, <1>4, <1>5 DEF N, M
<1>6. CASE t = off + len /\ t # s
  <2>1. len # 0
    BY <1>6
  <2>2. t <= q * BlockSize
    BY <1>6, <2>1 DEF Reached
  <2>3. M * BlockSize < q * BlockSize + BlockSize
    BY <1>1, <1>2, <1>3, <2>2
  <2>4. M <= q
    BY <1>2, <2>3, LeQuotient, SizesAssumption
  <2>. QED BY <1>1, <1>2, <1>4, <2>4 DEF N, M
<1>. QED BY <1>5, <1>6

\* The inode takes the new blocks into the file.
LEMMA WriteInodeKeeps ==
  ASSUME StepInv, Writing, NEW now \in Times, write_inode(now)
  PROVE  StepInv' /\ KeepInv'
<1> DEFINE i   == op.i
           n   == op.node
           t   == IF offset + length > n.size THEN offset + length ELSE n.size
           in  == [n EXCEPT !.size = t, !.mtime = now]
           M   == nblocks(in)
           New == FirstNew .. M - 1
           G   == {n.ptrs[r] : r \in New}
<1>1. /\ op # Idle /\ op.pc = "loop" /\ op.nread = length /\ End(op.nread)
      /\ block_write(i, in)
  BY DEF write_inode, At
<1>2. /\ op \in Locals /\ Sound /\ i \in Linked(disk) /\ i \in Blk
      /\ disk[i].type = "file" /\ disk[i] \in Inode
      /\ nblocks(n) = FirstNew /\ FirstNew \in 0 .. NumPtrs
      /\ op.q \in Nat /\ op.nread \in Nat /\ op.block_offset \in Nat
      /\ offset \in Nat /\ length \in Nat
  BY <1>1, WritingFacts
<1>3. n \in Nodes /\ n.type = "file" /\ n.size = disk[i].size /\ n.size \in Nat
  BY <1>2, NodeTypes DEF Writing, NodeRead, Inode
<1>4. /\ t \in Nat /\ DIV_ROUND_UP(t, BlockSize) \in Nat
      /\ FirstNew <= DIV_ROUND_UP(t, BlockSize)
      /\ DIV_ROUND_UP(t, BlockSize) = FirstNew \/ DIV_ROUND_UP(t, BlockSize) <= op.q
  <2>1. FirstNew = DIV_ROUND_UP(n.size, BlockSize)
    BY <1>2 DEF nblocks
  <2>2. offset <= n.size /\ Reached(offset, length, op.q, op.block_offset, length)
    BY <1>1, <1>3 DEF Writing, Position
  <2> DEFINE s == n.size
             T == t
  <2>3. s \in Nat /\ offset <= s /\ T = IF offset + length > s THEN offset + length ELSE s
    BY <1>3, <2>2
  <2> HIDE DEF s, T
  <2>4. LET N == DIV_ROUND_UP(s, BlockSize)
            W == DIV_ROUND_UP(T, BlockSize)
        IN  T \in Nat /\ N \in Nat /\ W \in Nat /\ N <= W /\ (W = N \/ W <= op.q)
    BY <1>2, <2>2, <2>3, NewSizeReached
  <2>5. T = t /\ s = n.size
    BY DEF T, s
  <2> HIDE DEF t
  <2>. QED BY <2>1, <2>4, <2>5
<1>5. t <= MaxFile
  BY <1>2, <1>3 DEF Writing, Position, Inode
<1> HIDE DEF t
<1>6. \A r \in PtrIdx : n.ptrs[r] \in Blk \cup {NoPtr}
  <2> SUFFICES ASSUME NEW r \in PtrIdx PROVE n.ptrs[r] \in Blk \cup {NoPtr}
    OBVIOUS
  <2>1. CASE r \in NewIdx
    BY <2>1 DEF Writing, Held, Spare, NewBlks
  <2>2. CASE r \notin NewIdx
    <3>1. r < FirstNew \/ r > op.q \/ r = op.q
      BY <1>2, <2>2 DEF NewIdx, PtrIdx
    <3>2. n.ptrs[r] = disk[i].ptrs[r]
      BY <1>1, <3>1 DEF Writing, NodeRead
    <3>. QED BY <1>2, <3>2 DEF Inode
  <2>. QED BY <2>1, <2>2
<1>7. /\ in \in Inode /\ in.kind = "inode" /\ in.type = "file" /\ in.size = t
      /\ in.ptrs = n.ptrs /\ in \in Content
  <2>1. n \in Inode
    BY <1>3, <1>6, NodeIsInode
  <2>2. t \in 0 .. MaxFile
    BY <1>4, <1>5, SizesAssumption DEF MaxFile
  <2>. QED BY <1>3, <2>1, <2>2 DEF Inode, Content
<1> HIDE DEF in, n
<1>8. M \in Nat /\ FirstNew <= M /\ (M = FirstNew \/ M <= op.q)
  BY <1>4, <1>7 DEF nblocks
<1> HIDE DEF M
<1>9. New \subseteq NewIdx
  BY <1>2, <1>8 DEF NewIdx
<1>10. New \subseteq PtrIdx
  BY <1>9 DEF Writing
<1>11. G \subseteq NewBlks
  BY <1>9 DEF NewBlks, n
<1>12. /\ Spare(disk, G) /\ G \subseteq map /\ G \subseteq Blk
       /\ SoundImage(map, disk) /\ disk \in [Blk -> Content]
  BY <1>2, <1>11 DEF Writing, Held, Spare, Sound, SoundImage
<1>13. i \notin G
  BY <1>2, <1>12 DEF Spare, Owned
<1>14. SoundImage(map \ G, disk)
  BY <1>12, Unmark
<1>15. MorePtrs(disk, i, in, New, G)
  <2>1. UsedPtrs(disk[i]) = 0 .. FirstNew - 1 /\ UsedPtrs(in) = 0 .. M - 1
    BY <1>2, <1>7 DEF UsedPtrs, FirstNew, M
  <2>2. UsedPtrs(in) = UsedPtrs(disk[i]) \cup New /\ New \cap UsedPtrs(disk[i]) = {}
    BY <1>2, <1>8, <2>1
  <2>3. \A r \in UsedPtrs(disk[i]) : in.ptrs[r] = disk[i].ptrs[r]
    <3>1. \A r \in UsedPtrs(disk[i]) : r \in PtrIdx /\ r < FirstNew
      BY <1>2, <2>1, UsedPtrsTypes
    <3>. QED BY <1>7, <3>1 DEF Writing, NodeRead, n
  <2>4. \A r, s \in New : in.ptrs[r] = in.ptrs[s] => r = s
    BY <1>7, <1>9 DEF Writing, n
  <2>5. \A r \in New : in.ptrs[r] \in G
    BY <1>7
  <2>. QED BY <1>7, <2>2, <2>3, <2>4, <2>5 DEF MorePtrs
<1>16. Written(disk, disk', i, in, G) /\ map' = map
  <2>1. disk' = [disk EXCEPT ![i] = in] /\ map' = map
    BY <1>1 DEF block_write
  <2>2. /\ disk' \in [Blk -> Content] /\ disk'[i] = in
        /\ \A b \in Blk : b # i => disk'[b] = disk[b]
    BY <1>2, <1>7, <1>12, <2>1
  <2>3. \A b \in G : disk[b] = Data
    BY <1>9 DEF Writing, n
  <2> HIDE DEF G
  <2>. QED BY <1>12, <1>13, <2>1, <2>2, <2>3 DEF Written
<1> HIDE DEF G, New, i
<1>17. SoundImage((map \ G) \cup G, disk')
  <2> DEFINE m == map \ G
  <2>1. SoundImage(m, disk) /\ G \in SUBSET Blk /\ G \cap m = {}
    BY <1>12, <1>14
  <2> HIDE DEF m
  <2>2. SoundImage(m \cup G, disk')
    BY <1>2, <1>15, <1>16, <2>1, Extend
  <2>. QED BY <2>2 DEF m
<1>18. (map \ G) \cup G = map
  BY <1>12
<1>19. Sound'
  BY <1>16, <1>17, <1>18 DEF Sound
<1>. QED BY <1>1, <1>2, <1>19, Ended DEF Results

-----------------------------------------------------------------------------
(***************************************************************************)
(* The other steps: what changes nothing, the handlers of Fs5600, and a    *)
(* crash.                                                                  *)
(***************************************************************************)
LEMMA HalfwayStays ==
  ASSUME disk' = disk, map' = map, req' = req, Halfway
  PROVE  Halfway'
<1>1. Victim' = Victim
  BY SamePaths DEF Victim
<1>2. removal_errno(req)' = removal_errno(req)
  BY SameChecks
<1>. QED BY <1>1, <1>2 DEF Halfway, Removable, Owned

LEMMA StageStays ==
  ASSUME disk' = disk, map' = map, req' = req, op' = op, InStage
  PROVE  InStage'
<1>1. Creating => Creating'
  BY DEF Creating, Sound, ParentRead, S_ISDIR, Allocated
<1>2. Halfway => Halfway' /\ Victim' = Victim
  BY HalfwayStays, SamePaths DEF Victim
<1>3. Halfway /\ CopiesRead => CopiesRead'
  BY <1>2, SamePaths DEF CopiesRead, Halfway, Removable
<1>4. Freeing => Freeing'
  BY <1>2, <1>3 DEF Freeing, ToFree
<1>5. Clearing => Clearing'
  BY <1>2, <1>3 DEF Clearing
<1>6. Stamping => Stamping'
  BY DEF Stamping, Sound, ParentRead, S_ISDIR
<1>7. Writing => Writing'
  BY DEF Writing, Sound, NodeRead, Position, NewIdx, NewBlks, FirstNew, offset, length
<1>. QED BY <1>1, <1>4, <1>5, <1>6, <1>7 DEF InStage

LEMMA StutterKeeps ==
  ASSUME StepInv, KeepInv, UNCHANGED svars
  PROVE  StepInv' /\ KeepInv'
<1>1. disk' = disk /\ map' = map /\ req' = req /\ op' = op /\ redo' = redo
      /\ ret' = ret /\ up' = up /\ map0' = map0 /\ disk0' = disk0
  BY DEF svars
<1>2. TypeOK' /\ (Sound => Sound') /\ (Removable => Removable') /\ Idle' = Idle
  BY <1>1 DEF StepInv, TypeOK, Sound, Removable, Idle
<1>3. op # Idle => InStage'
  BY <1>1, StageStays DEF StepInv, InStage
<1>4. Resting => Resting'
  BY <1>1, <1>2, HalfwayStays DEF Resting
<1>5. StepInv'
  BY <1>1, <1>2, <1>3, <1>4 DEF StepInv, InStage
<1>6. KeepInv'
  BY <1>1, <1>2 DEF KeepInv, Kept, InUse
<1>. QED BY <1>5, <1>6

LEMMA InitKeeps ==
  ASSUME StepInv, init
  PROVE  StepInv' /\ KeepInv'
<1>1. disk' = disk /\ map' = map /\ req' = req /\ op' = op /\ redo' = redo
      /\ ret' = ret /\ up' = "mounted" /\ map0' = map /\ disk0' = disk
  BY DEF init, fs_init, Sync
<1>2. TypeOK' /\ (Sound => Sound') /\ (Removable => Removable') /\ Idle' = Idle
  BY <1>1 DEF StepInv, TypeOK, Sound, Removable, Idle
<1>3. op # Idle => InStage'
  BY <1>1, StageStays DEF StepInv, InStage
<1>4. Resting => Resting'
  BY <1>1, <1>2, HalfwayStays DEF Resting
<1>5. StepInv'
  BY <1>1, <1>2, <1>3, <1>4 DEF StepInv, InStage
<1>6. KeepInv'
  BY <1>1 DEF KeepInv, Kept
<1>. QED BY <1>5, <1>6

\* rename, chmod and utime.
LEMMA AtomicKeeps ==
  ASSUME StepInv, NEW r, Take(r), ~strayed', r[1] \notin Removing, Sync, IInv => IInv'
  PROVE  StepInv' /\ KeepInv'
<1>1. Sound /\ ~redo /\ op = Idle
  BY TakenSound
<1>2. IInv'
  BY <1>1 DEF StepInv, IInv
<1>3. op' = Idle /\ redo' = FALSE /\ map0' = map' /\ disk0' = disk'
  BY <1>1 DEF Sync, StepInv
<1>4. ret' \in Results /\ up' \in {"down", "mounted"} /\ Sound'
  BY <1>2 DEF IInv, TypeOK, Results
<1>. QED BY <1>3, <1>4, Rests

LEMMA CrashKeeps ==
  ASSUME StepInv, Crash
  PROVE  StepInv' /\ KeepInv'
<1>1. disk' = disk /\ map' = map /\ req' = req /\ op' = Idle
      /\ map0' = map' /\ disk0' = disk' /\ redo' = (req[1] \in Removing)
      /\ up' = "down" /\ ret' = ret /\ InStage
  BY DEF Crash, StepInv, InStage
<1>2. ret' \in Results /\ up' \in {"down", "mounted"} /\ redo' \in BOOLEAN
  BY <1>1 DEF StepInv, TypeOK, Results
<1>3. Sound => Sound'
  BY <1>1 DEF Sound
<1>4. CASE Creating \/ Writing
  BY <1>1, <1>2, <1>3, <1>4, Rests DEF Creating, Writing, Making, Removing
<1>5. CASE Stamping
  BY <1>1, <1>2, <1>3, <1>5, Rests DEF Stamping, Removable
<1>6. CASE Freeing \/ Clearing
  <2>1. Halfway /\ redo'
    BY <1>1, <1>6 DEF Freeing, Clearing, Halfway, Removable
  <2>2. Halfway'
    BY <1>1, <2>1, HalfwayStays
  <2>. QED BY <1>1, <1>2, <2>1, <2>2, Rests DEF Halfway
<1>. QED BY <1>1, <1>4, <1>5, <1>6 DEF InStage

-----------------------------------------------------------------------------
(***************************************************************************)
(* The invariant.                                                          *)
(***************************************************************************)
\* The steps of a stage find its part of the invariant.
LEMMA StageOf ==
  ASSUME StepInv, op # Idle
  PROVE  /\ op.pc \in {"alloc", "allocdir", "dirs", "inode", "entry", "parent"} => Creating
         /\ op.pc = "free" => Freeing
         /\ op.pc = "clear" => Clearing
         /\ op.pc = "stamp" => Stamping
         /\ op.pc \in {"loop", "data"} => Writing
<1>1. /\ Creating => op.pc \in {"alloc", "allocdir", "dirs", "inode", "entry", "parent"}
      /\ Freeing => op.pc = "free"
      /\ Clearing => op.pc = "clear"
      /\ Stamping => op.pc = "stamp"
      /\ Writing => op.pc \in {"loop", "data"}
  BY DEF Creating, Freeing, Clearing, Stamping, Writing
<1>. QED BY <1>1 DEF StepInv

LEMMA Carried ==
  ASSUME KeepInv, op # Idle, KeepInv' \/ Carries,
         op' = Idle \/ (req' = req /\ disk0' = disk0)
  PROVE  KeepInv'
<1>1. CASE op' = Idle
  BY <1>1 DEF KeepInv, Idle
<1>2. CASE Carries /\ req' = req /\ disk0' = disk0
  <2>1. Kept
    BY DEF KeepInv
  <2>2. CASE req[1] \in Removing
    <3>1. map \cap InUse(disk0) \subseteq InUse(disk)
      BY <2>1, <2>2 DEF Kept
    <3>2. map' \subseteq map /\ map' \cap InUse(disk) \subseteq InUse(disk')
      BY <1>2, <2>2 DEF Carries
    <3>3. map' \cap InUse(disk0) \subseteq InUse(disk')
      BY <3>1, <3>2
    <3>. QED BY <1>2, <2>2, <3>3 DEF KeepInv, Kept, InUse
  <2>3. CASE req[1] \notin Removing
    <3>1. InUse(disk0) \subseteq InUse(disk) /\ InUse(disk) \subseteq InUse(disk')
      BY <1>2, <2>1, <2>3 DEF Kept, Carries
    <3>2. InUse(disk0) \subseteq InUse(disk')
      BY <3>1
    <3>. QED BY <1>2, <2>3, <3>2 DEF KeepInv, Kept, InUse
  <2>. QED BY <2>2, <2>3
<1>. QED BY <1>1, <1>2

LEMMA StepKeepsImage ==
  ASSUME StepInv, KeepInv, Step
  PROVE  StepInv' /\ KeepInv'
<1>1. CASE alloc_inode
  <2>1. op # Idle /\ Creating /\ req' = req /\ disk0' = disk0
    BY <1>1, StageOf DEF alloc_inode, At, Advance, Go
  <2>. QED BY <1>1, <2>1, AllocInodeKeeps, Carried
<1>2. CASE alloc_dirs
  <2>1. op # Idle /\ Creating /\ req' = req /\ disk0' = disk0
    BY <1>2, StageOf DEF alloc_dirs, At, Advance, Go
  <2>. QED BY <1>2, <2>1, AllocDirsKeeps, Carried
<1>3. CASE write_new_dirs
  <2>1. op # Idle /\ Creating /\ (op' = Idle \/ (req' = req /\ disk0' = disk0))
    BY <1>3, StageOf DEF write_new_dirs, At, Advance, Go, AssertFails
  <2>. QED BY <1>3, <2>1, WriteNewDirsKeeps, Carried
<1>4. CASE write_new_inode
  <2>1. op # Idle /\ Creating /\ (op' = Idle \/ (req' = req /\ disk0' = disk0))
    BY <1>4, StageOf DEF write_new_inode, At, Advance, Go, AssertFails
  <2>. QED BY <1>4, <2>1, WriteNewInodeKeeps, Carried
<1>5. CASE write_entry
  <2>1. op # Idle /\ Creating /\ (op' = Idle \/ (req' = req /\ disk0' = disk0))
    BY <1>5, StageOf DEF write_entry, At, Advance, Go, Refuse, End
  <2>. QED BY <1>5, <2>1, WriteEntryKeeps, Carried
<1>6. CASE write_parent
  BY <1>6, StageOf, WriteParentKeeps DEF write_parent, At
<1>7. CASE free_block
  <2>1. op # Idle /\ Freeing /\ req' = req /\ disk0' = disk0
    BY <1>7, StageOf DEF free_block, At, Go
  <2>. QED BY <1>7, <2>1, FreeBlockKeeps, Carried
<1>8. CASE free_inode
  <2>1. op # Idle /\ Freeing /\ req' = req /\ disk0' = disk0
    BY <1>8, StageOf DEF free_inode, At, Go
  <2>. QED BY <1>8, <2>1, FreeInodeKeeps, Carried
<1>9. CASE clear_entry
  <2>1. At("clear") /\ req' = req /\ disk0' = disk0
    BY <1>9, Zenon DEF clear_entry, Go
  <2>2. op # Idle /\ Clearing
    BY <2>1, StageOf DEF At
  <2>. QED BY <1>9, <2>1, <2>2, ClearEntryKeeps, Carried
<1>10. ASSUME NEW now \in Times, stamp_parent(now)
       PROVE  StepInv' /\ KeepInv'
  BY <1>10, StageOf, StampParentKeeps DEF stamp_parent, At
<1>11. CASE truncate_inode
  BY <1>11, StageOf, TruncateInodeKeeps DEF truncate_inode, At
<1>12. CASE alloc_data
  <2>1. op # Idle /\ Writing /\ req' = req /\ disk0' = disk0
    BY <1>12, StageOf DEF alloc_data, InLoop, At, Go
  <2>. QED BY <1>12, <2>1, AllocDataKeeps, Carried
<1>13. CASE write_data
  <2>1. op # Idle /\ Writing /\ (op' = Idle \/ (req' = req /\ disk0' = disk0))
    BY <1>13, StageOf DEF write_data, InLoop, At, Go, AssertFails
  <2>. QED BY <1>13, <2>1, WriteDataKeeps, Carried
<1>14. ASSUME NEW now \in Times, write_inode(now)
       PROVE  StepInv' /\ KeepInv'
  <2>1. At("loop")
    BY <1>14 DEF write_inode
  <2>2. Writing
    BY <2>1, StageOf DEF At
  <2>. QED BY <1>14, <2>2, WriteInodeKeeps
<1>. QED BY <1>1, <1>2, <1>3, <1>4, <1>5, <1>6, <1>7, <1>8, <1>9, <1>10, <1>11, <1>12,
            <1>13, <1>14 DEF Step

LEMMA RequestKeeps ==
  ASSUME StepInv, Request, ~strayed'
  PROVE  StepInv' /\ KeepInv'
<1>1. ASSUME NEW p \in Paths, NEW perm \in Perms, NEW now \in Times,
             create_begin(p, perm, now) \/ mkdir_begin(p, perm, now)
      PROVE  StepInv' /\ KeepInv'
  BY <1>1, CreateBegins, MkdirBegins
<1>2. ASSUME NEW p \in Paths \ {<<>>}, unlink_begin(p) \/ rmdir_begin(p)
      PROVE  StepInv' /\ KeepInv'
  BY <1>2, UnlinkBegins, RmdirBegins
<1>3. ASSUME NEW p \in Paths, NEW len \in {0} \cup Lengths, truncate_begin(p, len)
      PROVE  StepInv' /\ KeepInv'
  BY <1>3, TruncateBegins
<1>4. ASSUME NEW p \in Paths, NEW off \in Offsets, NEW len \in Lengths,
             write_begin(p, off, len)
      PROVE  StepInv' /\ KeepInv'
  BY <1>4, WriteBegins
<1>5. ASSUME NEW src \in Paths, NEW dst \in Paths, rename(src, dst)
      PROVE  StepInv' /\ KeepInv'
  <2> DEFINE r == <<"rename", src, dst>>
  <2>1. Take(r) /\ r[1] \notin Removing /\ Sync /\ (IInv => IInv')
    BY <1>5, RenameKeeps DEF rename, Removing
  <2> HIDE DEF r
  <2>. QED BY <2>1, AtomicKeeps
<1>6. ASSUME NEW p \in Paths, NEW perm \in Perms, chmod(p, perm)
      PROVE  StepInv' /\ KeepInv'
  <2> DEFINE r == <<"chmod", p, perm>>
  <2>1. Take(r) /\ r[1] \notin Removing /\ Sync /\ (IInv => IInv')
    BY <1>6, ChmodKeeps DEF chmod, Removing
  <2> HIDE DEF r
  <2>. QED BY <2>1, AtomicKeeps
<1>7. ASSUME NEW p \in Paths, NEW t \in Times, utime(p, t)
      PROVE  StepInv' /\ KeepInv'
  <2> DEFINE r == <<"utime", p, t>>
  <2>1. Take(r) /\ r[1] \notin Removing /\ Sync /\ (IInv => IInv')
    BY <1>7, UtimeKeeps DEF utime, Removing
  <2> HIDE DEF r
  <2>. QED BY <2>1, AtomicKeeps
<1>. QED BY <1>1, <1>2, <1>3, <1>4, <1>5, <1>6, <1>7 DEF Request

LEMMA StepInit == SInit => StepInv /\ KeepInv
<1>. SUFFICES ASSUME SInit PROVE StepInv /\ KeepInv
  OBVIOUS
<1>1. TypeOK /\ Sound
  BY InitHolds DEF SInit, IInv
<1>. QED BY <1>1 DEF SInit, StepInv, Resting, KeepInv

\* A caller who has strayed stays so.
LEMMA StrayedStays ==
  ASSUME [SNext]_svars, ~strayed'
  PROVE  ~strayed
<1>1. ASSUME NEW r, Take(r)
      PROVE  ~strayed
  BY <1>1 DEF Take
<1>2. CASE Request
  BY <1>1, <1>2 DEF Request, create_begin, mkdir_begin, unlink_begin, rmdir_begin,
                    truncate_begin, write_begin, rename, chmod, utime
<1>3. CASE Step
  <2>1. strayed' = strayed
    BY <1>3 DEF Step, alloc_inode, alloc_dirs, write_new_dirs, write_new_inode, write_entry,
                write_parent, free_block, free_inode, clear_entry, stamp_parent,
                truncate_inode, alloc_data, write_data, write_inode, Advance, Go, AssertFails
  <2>. QED BY <2>1
<1>4. CASE init \/ Crash \/ UNCHANGED svars
  <2>1. strayed' = strayed
    BY <1>4 DEF init, Crash, svars
  <2>. QED BY <2>1
<1>. QED BY <1>2, <1>3, <1>4 DEF SNext

LEMMA SNextKeeps ==
  ASSUME StepInv, KeepInv, [SNext]_svars, ~strayed'
  PROVE  StepInv' /\ KeepInv'
BY StutterKeeps, InitKeeps, RequestKeeps, StepKeepsImage, CrashKeeps DEF SNext

\* The inductive invariant of FsSteps: until, after a crash in a removal, a
\* caller takes up something else than that removal, at every block write the
\* image is sound, or will be once the removal that runs, or that a crash
\* interrupted, has taken its entry away; and what was in use when the handler
\* began still is.
THEOREM StepInvariance == SSpec => [](strayed \/ (StepInv /\ KeepInv))
<1>1. SInit => strayed \/ (StepInv /\ KeepInv)
  BY StepInit
<1>2. ASSUME strayed \/ (StepInv /\ KeepInv), [SNext]_svars
      PROVE  strayed' \/ (StepInv /\ KeepInv)'
  BY <1>2, StrayedStays, SNextKeeps
<1>. QED BY <1>1, <1>2, PTL DEF SSpec

-----------------------------------------------------------------------------
(***************************************************************************)
(* What a crash finds.                                                     *)
(***************************************************************************)
\* Only the victim of the removal misses its blocks: nobody shares them, and
\* there is no entry in them.
LEMMA HalfwayContained ==
  ASSUME Halfway
  PROVE  /\ Exists(req[2])
         /\ Reserved(map, disk)
         /\ \A i \in Linked(disk) \ {Victim} : InodeSound(map, disk, i)
         /\ NoSharing(disk) /\ OneEntry(disk) /\ EntriesMarked(map, disk)
<1> DEFINE O == Owned(disk, Victim)
           m == map \cup O
<1>1. Walkable /\ Condemned(req[1], req[2]) /\ SoundImage(m, disk)
  BY HalfwayFacts
<1>2. /\ Victim \in Linked(disk) /\ Victim # RootInum /\ disk[Victim] \in Inode
      /\ Hollow(disk, Victim)
  BY <1>1 DEF Condemned, Victim
<1>3. Exists(req[2])
  BY <1>1, <1>2, ExistsLinked DEF Halfway, Removable, Victim
<1> HIDE DEF m
<1>4. NoSharing(disk) /\ OneEntry(disk) /\ EntriesMarked(m, disk) /\ Reserved(m, disk)
      /\ AllSound(m, disk) /\ RootInum \in Linked(disk)
  BY <1>1, LinkedTypes DEF SoundImage
<1>5. \A i \in Linked(disk) \ {Victim} : Owned(disk, i) \subseteq map
  <2>. TAKE i \in Linked(disk) \ {Victim}
  <2>1. Owned(disk, i) \subseteq m
    BY <1>1, SoundOwned
  <2>2. Owned(disk, i) \cap O = {}
    BY <1>2, <1>4 DEF NoSharing
  <2>. QED BY <2>1, <2>2 DEF m
<1>6. \A i \in Linked(disk) \ {Victim} : InodeSound(map, disk, i)
  BY <1>4, <1>5 DEF AllSound, InodeSound, Owned
<1>7. Reserved(map, disk)
  <2>1. 0 \notin O /\ 1 \notin O
    BY <1>1, <1>2, SoundOwned
  <2>2. RootInum \in map
    BY <1>2, <1>4, <1>5 DEF Owned
  <2>. QED BY <1>4, <2>1, <2>2 DEF Reserved, m
<1>8. EntriesMarked(map, disk)
  <2>. SUFFICES ASSUME NEW b \in Blk, NEW k \in Slots, IsEntry(disk, b, k)
                PROVE  b \notin O
    BY <1>4 DEF EntriesMarked, m
  <2>1. InodeSound(m, disk, Victim) /\ disk[b].kind = "dir"
    BY <1>2, <1>4 DEF AllSound, IsEntry
  <2>2. b # Victim
    BY <2>1 DEF InodeSound
  <2>3. ASSUME NEW q \in UsedPtrs(disk[Victim]), disk[Victim].ptrs[q] = b
        PROVE  FALSE
    <3>1. disk[Victim].type = "dir"
      BY <2>1, <2>3 DEF InodeSound
    <3>2. q = 0
      BY <3>1 DEF UsedPtrs
    <3>. QED BY <1>2, <2>3, <3>1, <3>2 DEF Hollow
  <2>. QED BY <2>2, <2>3 DEF Owned
<1>. QED BY <1>3, <1>4, <1>6, <1>7, <1>8

LEMMA Contained == strayed \/ (StepInv /\ KeepInv) => CrashContained
<1>. SUFFICES ASSUME StepInv PROVE CrashContained
  BY DEF CrashContained
<1>1. CASE Sound
  BY <1>1 DEF Sound, SoundImage, AllSound, CrashContained
<1>2. ASSUME Halfway, Target = {Victim}
      PROVE  CrashContained
  BY <1>2, HalfwayContained DEF CrashContained
<1>3. CASE op = Idle /\ ~Sound
  <2>1. redo /\ Halfway
    BY <1>3 DEF StepInv, Resting
  <2>2. Target = {Victim}
    BY <1>3, <2>1, HalfwayContained DEF Target, Victim
  <2>. QED BY <1>2, <2>1, <2>2
<1>4. CASE op # Idle /\ ~Sound
  <2>1. Halfway /\ op.i = Victim
    BY <1>4 DEF StepInv, Creating, Freeing, Clearing, Stamping, Writing, CopiesRead
  <2>2. Target = {Victim}
    BY <1>4, <2>1 DEF Target, Halfway, Removable
  <2>. QED BY <1>2, <2>1, <2>2
<1>. QED BY <1>1, <1>3, <1>4

LEMMA Bounded == strayed \/ (StepInv /\ KeepInv) => LeakBounded
<1>. SUFFICES ASSUME KeepInv, op # Idle, NEW b \in Leaked(map, disk), b \in map0
              PROVE  b \in Leaked(map0, disk0)
  BY DEF LeakBounded, Leaked
<1>1. b \in map /\ b \notin InUse(disk)
  BY DEF Leaked, InUse
<1>2. b \notin InUse(disk0)
  BY <1>1 DEF KeepInv, Kept
<1>. QED BY <1>2 DEF Leaked, InUse

\* Between any two block writes of any handler, and so wherever a crash
\* leaves the image, everything is sound but the file or directory that is
\* being removed (fs_unlink, fs_rmdir and fs_truncate free the blocks before
\* they write the entry or the inode; the other handlers write it last).  This
\* lasts until, after a crash in a removal, a request other than that removal
\* is taken; of what follows the theorem says nothing.
THEOREM CrashesContained == SSpec => []CrashContained
BY StepInvariance, Contained, PTL

\* A handler that a crash interrupts leaks at most the blocks it allocated
\* itself: its block writes take nothing that was in use out of use before
\* its mark in the block map is gone.  Like CrashesContained it lasts until an
\* interrupted removal is followed by another request.
THEOREM LeaksBounded == SSpec => []LeakBounded
BY StepInvariance, Bounded, PTL
=============================================================================
