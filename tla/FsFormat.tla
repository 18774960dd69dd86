------------------------------ MODULE FsFormat ------------------------------
(***************************************************************************)
(* The on-disk format of the fs5600 file system (fs5600.h, and the image   *)
(* that gen-disk.py builds).  An image is an array of blocks:              *)
(*                                                                         *)
(*   block 0   the superblock (magic number and disk_size)                 *)
(*   block 1   the block map, one bit per block                            *)
(*   block 2   the inode of the root directory                             *)
(*   others    inodes, directory blocks, data blocks or unused blocks      *)
(*                                                                         *)
(* Blocks are untyped in the image.  The model tags the content of a block *)
(* with what it was last written as, so that reading it as anything else   *)
(* shows.  The bytes of a data block are left out: the model follows which *)
(* file owns a block, not what the block holds.                            *)
(***************************************************************************)
EXTENDS Integers, SequencesExt

CONSTANTS
  Names,       \* file names that fit a directory entry (at most 27 letters)
  LongNames,   \* names one letter longer than fits (28 letters)
  MaxDepth,    \* longest path; the code's own limit is 11 components
  NumBits,     \* bits in the block map, FS_BLOCK_SIZE * 8
  DiskSize,    \* disk_size of the superblock, in blocks
  RootDirBlk,  \* block with the root directory's entries (399 in disk2.in)
  NumDirent,   \* entries in a directory block, NUM_DIRENT_BLOCK
  BlockSize,   \* bytes in a block, FS_BLOCK_SIZE
  NumPtrs,     \* block pointers in an inode, NUM_PTRS_INODE
  Perms,       \* permission bits of a mode
  Times,       \* values of time(NULL)
  Offsets,     \* offsets in the requests to write
  Lengths,     \* lengths in the requests to write and truncate
  Word,        \* 2^w for the w-bit unsigned counters of struct statvfs
  NoPtr        \* an element of ptrs that was never assigned

ASSUME NamesAssumption == Names # {} /\ Names \cap LongNames = {}

ASSUME SizesAssumption ==
  /\ MaxDepth  \in Nat
  /\ NumDirent \in Nat \ {0}
  /\ BlockSize \in Nat \ {0}
  /\ NumPtrs   \in Nat \ {0}

\* gen-disk.py puts the root's entries in a block of the disk that is not
\* reserved, and the block map has a bit for every block of the disk.
ASSUME LayoutAssumption ==
  /\ DiskSize   \in Nat
  /\ NumBits    \in Nat
  /\ DiskSize   <= NumBits
  /\ RootDirBlk \in 3 .. DiskSize - 1

ASSUME WordAssumption == Word \in Nat /\ Word > 2 * NumBits

ASSUME RequestAssumption == Offsets \subseteq Nat /\ Lengths \subseteq Nat

ASSUME AttrAssumption == Perms # {} /\ Times # {}

\* NoPtr stands for stack garbage; it is told apart from every block number.
ASSUME NoPtrAssumption == NoPtr \notin Int

-----------------------------------------------------------------------------
(***************************************************************************)
(* Error numbers, as in errno.h.                                           *)
(***************************************************************************)
ENOENT     == 2
EEXIST     == 17
ENOTDIR    == 20
EISDIR     == 21
EINVAL     == 22
ENOSPC     == 28
ENOTEMPTY  == 39

AllNames == Names \cup LongNames
Paths    == SeqOf(AllNames, MaxDepth)   \* the path "/a/b" is <<a, b>>
Blk      == 0 .. NumBits - 1
Slots    == 0 .. NumDirent - 1
PtrIdx   == 0 .. NumPtrs - 1
RootInum == 2
MaxFile  == BlockSize * NumPtrs         \* largest file, in bytes

DIV_ROUND_UP(n, m) == (n + m - 1) \div m

-----------------------------------------------------------------------------
(***************************************************************************)
(* struct fs_dirent.  The name and inode of an entry that is not valid are *)
(* read by no code, so all such entries are the same EmptySlot.            *)
(***************************************************************************)
EmptySlot == [valid |-> FALSE]
Entry(i, n) == [valid |-> TRUE, inode |-> i, name |-> n]
Dirent == {EmptySlot} \cup [valid : {TRUE}, inode : Blk, name : AllNames]

(***************************************************************************)
(* struct fs_inode without uid and gid, which no code reads back except to *)
(* report them.  type is the S_IFMT part of mode, perm the other bits.     *)
(***************************************************************************)
FileTypes == {"file", "dir"}

Inode == [kind  : {"inode"},
          type  : FileTypes,
          perm  : Perms,
          ctime : Times,
          mtime : Times,
          size  : 0 .. MaxFile,
          ptrs  : [PtrIdx -> Blk \cup {NoPtr}]]

DirBlock == [kind : {"dir"}, ents : [Slots -> Dirent]]
Data     == [kind |-> "data"]
Zeros    == [kind |-> "zeros"]      \* a block gen-disk.py filled with zeros
Super    == [kind |-> "super"]
BlockMap == [kind |-> "map"]        \* its bits are the variable map

Content == Inode \cup DirBlock \cup {Data, Zeros, Super, BlockMap}

\* What dir.block of gen-disk.py and the memset of fs_mkdir write.
EmptyDir == [kind |-> "dir", ents |-> [k \in Slots |-> EmptySlot]]

\* An inode with its first block pointer set and the others unassigned.
NewInode(type, perm, now, size, ptr0) ==
  [kind |-> "inode", type |-> type, perm |-> perm, ctime |-> now,
   mtime |-> now, size |-> size,
   ptrs |-> [q \in PtrIdx |-> IF q = 0 THEN ptr0 ELSE NoPtr]]

\* How many of an inode's pointers its size makes meaningful.
nblocks(in) == DIV_ROUND_UP(in.size, BlockSize)
=============================================================================
