--------------------------- MODULE FsImage_proofs ---------------------------
(***************************************************************************)
(* How the elementary changes of an image preserve SoundImage.  There is   *)
(* one lemma for each kind of change that a handler of fs5600.c makes:     *)
(* writing blocks it has just allocated, adding an entry, removing an      *)
(* entry with what it leads to, renaming entries, changing attributes,     *)
(* truncating and extending a file.                                        *)
(***************************************************************************)
EXTENDS FsImage, TLAPS

(***************************************************************************)
(* Types.                                                                  *)
(***************************************************************************)
LEMMA ContentKinds ==
  ASSUME NEW c \in Content
  PROVE  /\ c.kind = "inode" => c \in Inode
         /\ c.kind = "dir" => c \in DirBlock
         /\ c.kind = "data" => c = Data
<1>1. CASE c \in Inode
  <2>1. c.kind = "inode"
    BY <1>1 DEF Inode
  <2>. QED BY <1>1, <2>1
<1>2. CASE c \in DirBlock
  <2>1. c.kind = "dir"
    BY <1>2 DEF DirBlock
  <2>. QED BY <1>2, <2>1
<1>3. CASE c \in {Data, Zeros, Super, BlockMap}
  BY <1>3 DEF Data, Zeros, Super, BlockMap
<1>. QED BY <1>1, <1>2, <1>3 DEF Content

LEMMA DirentTypes ==
  ASSUME NEW e \in Dirent
  PROVE  e.valid => e.inode \in Blk /\ e.name \in AllNames
<1>1. CASE e = EmptySlot
  BY <1>1 DEF EmptySlot
<1>2. CASE e \in [valid : {TRUE}, inode : Blk, name : AllNames]
  BY <1>2
<1>. QED BY <1>1, <1>2 DEF Dirent

LEMMA DivFacts ==
  ASSUME NEW n \in Nat, NEW b \in Nat \ {0}
  PROVE  n \div b \in Nat /\ (n \div b) * b <= n /\ n < (n \div b) * b + b
OBVIOUS

\* A size of at most q blocks needs at most q pointers, and conversely.
LEMMA RoundUp ==
  ASSUME NEW n \in Nat, NEW b \in Nat \ {0}
  PROVE  /\ DIV_ROUND_UP(n, b) \in Nat
         /\ n <= DIV_ROUND_UP(n, b) * b
         /\ DIV_ROUND_UP(n, b) * b < n + b
BY DivFacts, n + b - 1 \in Nat DEF DIV_ROUND_UP

LEMMA LeQuotient ==
  ASSUME NEW x \in Int, NEW y \in Int, NEW b \in Nat \ {0}, x * b < y * b + b
  PROVE  x <= y
OBVIOUS

LEMMA BlocksOfInode ==
  ASSUME NEW in \in Inode
  PROVE  nblocks(in) \in 0 .. NumPtrs
<1>1. in.size \in Nat /\ in.size <= BlockSize * NumPtrs
  BY SizesAssumption DEF Inode, MaxFile
<1>2. /\ nblocks(in) \in Nat
      /\ nblocks(in) * BlockSize < in.size + BlockSize
  BY <1>1, RoundUp, SizesAssumption DEF nblocks
<1>3. nblocks(in) * BlockSize < NumPtrs * BlockSize + BlockSize
  BY <1>1, <1>2, SizesAssumption
<1>4. nblocks(in) <= NumPtrs
  BY <1>2, <1>3, LeQuotient, SizesAssumption
<1>. QED BY <1>2, <1>4, SizesAssumption

LEMMA UsedPtrsTypes ==
  ASSUME NEW in \in Inode
  PROVE  UsedPtrs(in) \subseteq PtrIdx
BY BlocksOfInode, SizesAssumption DEF UsedPtrs, PtrIdx

LEMMA NoBlocks ==
  ASSUME NEW in \in Inode, in.size = 0
  PROVE  nblocks(in) = 0
<1>1. /\ nblocks(in) \in Nat
      /\ nblocks(in) * BlockSize < 0 * BlockSize + BlockSize
  BY RoundUp, SizesAssumption DEF nblocks
<1>2. nblocks(in) <= 0
  BY <1>1, LeQuotient, SizesAssumption
<1>. QED BY <1>1, <1>2

LEMMA LinkedTypes ==
  ASSUME NEW m, NEW d, SoundImage(m, d)
  PROVE  Linked(d) \subseteq Blk /\ RootInum \in Linked(d)
BY LayoutAssumption DEF SoundImage, Reserved, Linked, Blk, RootInum

-----------------------------------------------------------------------------
(***************************************************************************)
(* Blocks that are marked and serve nobody.                                *)
(***************************************************************************)
\* Nothing depends on a block being unmarked.
LEMMA Widen ==
  ASSUME NEW m, NEW d, SoundImage(m, d), NEW m2 \in SUBSET Blk, m \subseteq m2
  PROVE  SoundImage(m2, d)
<1>1. \A i \in Linked(d) : InodeSound(m2, d, i)
  BY DEF SoundImage, AllSound, InodeSound
<1>2. Reserved(m2, d) /\ EntriesMarked(m2, d)
  BY DEF SoundImage, Reserved, EntriesMarked
<1>. QED BY <1>1, <1>2 DEF SoundImage, AllSound

\* Blocks that no linked inode owns and that hold no entries.
Spare(d, S) ==
  /\ S \subseteq Blk \ {0, 1}
  /\ \A j \in Linked(d) : Owned(d, j) \cap S = {}
  /\ \A b \in S, k \in Slots : ~IsEntry(d, b, k)

\* Whether they are marked makes no difference.
LEMMA Unmark ==
  ASSUME NEW m, NEW d, SoundImage(m, d), NEW S, Spare(d, S)
  PROVE  SoundImage(m \ S, d)
<1>1. RootInum \in Linked(d)
  BY LinkedTypes
<1>2. RootInum \notin S
  BY <1>1 DEF Spare, Owned
<1>3. ASSUME NEW i \in Linked(d) PROVE InodeSound(m \ S, d, i)
  <2>1. InodeSound(m, d, i) /\ Owned(d, i) \cap S = {}
    BY DEF SoundImage, AllSound, Spare
  <2>. QED BY <2>1 DEF InodeSound, Owned
<1>4. Reserved(m \ S, d)
  BY <1>2 DEF SoundImage, Reserved, Spare
<1>5. EntriesMarked(m \ S, d)
  BY DEF SoundImage, EntriesMarked, Spare
<1>. QED BY <1>3, <1>4, <1>5 DEF SoundImage, AllSound

\* A block that is not marked is spare.
LEMMA UnmarkedSpare ==
  ASSUME NEW m, NEW d, SoundImage(m, d), NEW S, S \subseteq Blk \ m
  PROVE  Spare(d, S)
<1>1. 0 \notin S /\ 1 \notin S
  BY DEF SoundImage, Reserved
<1>2. \A j \in Linked(d) : Owned(d, j) \subseteq m
  <2> SUFFICES ASSUME NEW j \in Linked(d) PROVE Owned(d, j) \subseteq m
    OBVIOUS
  <2>1. InodeSound(m, d, j)
    BY DEF SoundImage, AllSound
  <2>. QED BY <2>1 DEF InodeSound, Owned
<1>3. \A b \in S, k \in Slots : ~IsEntry(d, b, k)
  BY DEF SoundImage, EntriesMarked
<1>. QED BY <1>1, <1>2, <1>3 DEF Spare

-----------------------------------------------------------------------------
(***************************************************************************)
(* A change that adds no entry and no pointer.                             *)
(***************************************************************************)
\* Every entry of e is an entry of d with the same inode.
FewerEntries(d, e) ==
  \A b \in Blk, k \in Slots :
    IsEntry(e, b, k) => IsEntry(d, b, k) /\ e[b].ents[k].inode = d[b].ents[k].inode

\* Inode i has in e no used pointer that it does not have in d.
FewerPtrs(d, e, i) ==
  /\ UsedPtrs(e[i]) \subseteq UsedPtrs(d[i])
  /\ \A q \in UsedPtrs(e[i]) : e[i].ptrs[q] = d[i].ptrs[q]

LEMMA FewerLinked ==
  ASSUME NEW d, NEW e, FewerEntries(d, e)
  PROVE  Linked(e) \subseteq Linked(d)
BY DEF Linked, FewerEntries

\* If nothing is added and every inode that is still linked is sound, the
\* image is sound.
LEMMA Shrink ==
  ASSUME NEW m, NEW d, SoundImage(m, d),
         NEW m2 \in SUBSET Blk, NEW e \in [Blk -> Content],
         Reserved(m2, e),
         FewerEntries(d, e),
         \A i \in Linked(e) : FewerPtrs(d, e, i) /\ InodeSound(m2, e, i),
         EntriesMarked(m2, e)
  PROVE  SoundImage(m2, e)
<1>1. Linked(e) \subseteq Linked(d)
  BY FewerLinked
<1>2. \A i \in Linked(e) : Owned(e, i) \subseteq Owned(d, i)
  BY DEF Owned, FewerPtrs
<1>3. NoSharing(e)
  <2>1. \A i, j \in Linked(e) : i # j => Owned(e, i) \cap Owned(e, j) = {}
    <3> SUFFICES ASSUME NEW i \in Linked(e), NEW j \in Linked(e), i # j
                 PROVE  Owned(e, i) \cap Owned(e, j) = {}
      OBVIOUS
    <3>1. Owned(d, i) \cap Owned(d, j) = {}
      BY <1>1 DEF SoundImage, NoSharing
    <3>. QED BY <1>2, <3>1
  <2>2. \A i \in Linked(e) : \A q, r \in UsedPtrs(e[i]) :
          e[i].ptrs[q] = e[i].ptrs[r] => q = r
    BY <1>1 DEF SoundImage, NoSharing, FewerPtrs
  <2>. QED BY <2>1, <2>2 DEF NoSharing
<1>4. OneEntry(e)
  BY DEF SoundImage, OneEntry, FewerEntries
<1>5. AllSound(m2, e)
  BY DEF AllSound
<1>. QED BY <1>3, <1>4, <1>5 DEF SoundImage

-----------------------------------------------------------------------------
(***************************************************************************)
(* Marking free blocks and writing them, without an entry for them.        *)
(***************************************************************************)
\* e differs from d in the unmarked blocks S only, and has no entries there.
FreshIn(m, d, e, S) ==
  /\ S \subseteq Blk /\ S \cap m = {}
  /\ e \in [Blk -> Content]
  /\ \A b \in Blk \ S : e[b] = d[b]
  /\ \A b \in S, k \in Slots : ~IsEntry(e, b, k)

LEMMA Fresh ==
  ASSUME NEW m, NEW d, SoundImage(m, d), NEW S, NEW e, FreshIn(m, d, e, S)
  PROVE  SoundImage(m \cup S, e) /\ Linked(e) = Linked(d)
<1> USE DEF FreshIn
<1>1. \A b \in m : e[b] = d[b]
  BY DEF SoundImage
<1>2. \A b \in Blk, k \in Slots :
        IsEntry(e, b, k) <=> IsEntry(d, b, k) /\ e[b] = d[b]
  BY <1>1 DEF SoundImage, EntriesMarked, IsEntry
<1>2a. \A b \in Blk, k \in Slots : IsEntry(d, b, k) => e[b] = d[b]
  BY <1>1 DEF SoundImage, EntriesMarked
<1>3. Linked(e) = Linked(d)
  BY <1>2, <1>2a DEF Linked
<1>4. FewerEntries(d, e)
  BY <1>2 DEF FewerEntries
<1>5. ASSUME NEW i \in Linked(d)
      PROVE  FewerPtrs(d, e, i) /\ InodeSound(m \cup S, e, i)
  <2>1. InodeSound(m, d, i) /\ e[i] = d[i]
    BY <1>1 DEF SoundImage, AllSound, InodeSound
  <2>2. \A q \in UsedPtrs(d[i]) : e[d[i].ptrs[q]] = d[d[i].ptrs[q]]
    BY <1>1, <2>1 DEF InodeSound
  <2>. QED BY <2>1, <2>2 DEF InodeSound, FewerPtrs
<1>6. Reserved(m \cup S, e)
  BY <1>1 DEF SoundImage, Reserved
<1>7. EntriesMarked(m \cup S, e)
  BY <1>2 DEF SoundImage, EntriesMarked
<1>8. m \cup S \in SUBSET Blk
  BY DEF SoundImage
<1>9. SoundImage(m \cup S, e)
  BY <1>3, <1>4, <1>5, <1>6, <1>7, <1>8, Shrink
<1>. QED BY <1>3, <1>9

\* Writing to blocks that are marked and serve nobody.
LEMMA WriteSpare ==
  ASSUME NEW m, NEW d, SoundImage(m, d), NEW S, Spare(d, S), S \subseteq m,
         NEW e \in [Blk -> Content],
         \A b \in Blk \ S : e[b] = d[b],
         \A b \in S, k \in Slots : ~IsEntry(e, b, k)
  PROVE  /\ SoundImage(m, e)
         /\ Spare(e, S)
         /\ Linked(e) = Linked(d)
         /\ \A j \in Linked(d) : e[j] = d[j] /\ Owned(e, j) = Owned(d, j)
<1>1. SoundImage(m \ S, d)
  BY Unmark
<1>2. FreshIn(m \ S, d, e, S)
  BY DEF FreshIn, Spare
<1>3. SoundImage((m \ S) \cup S, e) /\ Linked(e) = Linked(d)
  BY <1>1, <1>2, Fresh
<1>4. (m \ S) \cup S = m
  OBVIOUS
<1>5. \A j \in Linked(d) : e[j] = d[j] /\ Owned(e, j) = Owned(d, j)
  <2>1. Linked(d) \subseteq Blk
    BY LinkedTypes
  <2>2. \A j \in Linked(d) : j \notin S
    BY DEF Spare, Owned
  <2>. QED BY <2>1, <2>2 DEF Owned
<1>6. Spare(e, S)
  BY <1>3, <1>5 DEF Spare
<1>. QED BY <1>3, <1>4, <1>5, <1>6

-----------------------------------------------------------------------------
(***************************************************************************)
(* Changing the attributes of an inode.                                    *)
(***************************************************************************)
LEMMA Touch ==
  ASSUME NEW m, NEW d, SoundImage(m, d),
         NEW i \in Linked(d), NEW in \in Inode,
         in.type = d[i].type, in.size = d[i].size, in.ptrs = d[i].ptrs
  PROVE  SoundImage(m, [d EXCEPT ![i] = in])
<1> DEFINE e == [d EXCEPT ![i] = in]
<1>0. i \in Blk /\ d[i].kind = "inode" /\ d \in [Blk -> Content] /\ in.kind = "inode"
  BY LinkedTypes DEF SoundImage, AllSound, InodeSound, Inode
<1>1. /\ e \in [Blk -> Content]
      /\ e[i] = in
      /\ \A b \in Blk : b # i => e[b] = d[b]
      /\ \A b \in Blk : e[b].kind = d[b].kind
  BY <1>0 DEF Content
<1> HIDE DEF e
<1>2. \A b \in Blk, k \in Slots :
        IsEntry(e, b, k) => IsEntry(d, b, k) /\ e[b] = d[b]
  BY <1>0, <1>1 DEF IsEntry
<1>3. FewerEntries(d, e) /\ EntriesMarked(m, e)
  BY <1>2 DEF FewerEntries, EntriesMarked, SoundImage
<1>4. UsedPtrs(in) = UsedPtrs(d[i])
  BY DEF UsedPtrs, nblocks
<1>5. Linked(e) \subseteq Linked(d) /\ Linked(d) \subseteq Blk
  BY <1>3, FewerLinked, LinkedTypes
<1>6. ASSUME NEW j \in Linked(e)
      PROVE  FewerPtrs(d, e, j) /\ InodeSound(m, e, j)
  <2>1. InodeSound(m, d, j) /\ m \subseteq Blk /\ j \in Blk
    BY <1>5 DEF SoundImage, AllSound
  <2>2. /\ UsedPtrs(e[j]) = UsedPtrs(d[j])
        /\ e[j].ptrs = d[j].ptrs /\ e[j].type = d[j].type /\ e[j].size = d[j].size
    BY <1>1, <1>4, <2>1
  <2>. QED BY <1>1, <2>1, <2>2 DEF InodeSound, FewerPtrs
<1>7. Reserved(m, e)
  <2>1. 0 \in Blk /\ 1 \in Blk /\ RootInum \in Blk
    BY LayoutAssumption DEF Blk, RootInum
  <2>2. i # 0 /\ i # 1
    BY <1>0 DEF SoundImage, Reserved, Super, BlockMap
  <2>. QED BY <1>1, <2>1, <2>2 DEF SoundImage, Reserved
<1>8. m \in SUBSET Blk
  BY DEF SoundImage
<1>. QED BY <1>1, <1>3, <1>6, <1>7, <1>8, Shrink DEF e

-----------------------------------------------------------------------------
(***************************************************************************)
(* Changing the entries of a directory block without adding one.           *)
(***************************************************************************)
\* e differs from d in the entries of directory block b only.
EntsChanged(d, e, b) ==
  /\ e \in [Blk -> Content]
  /\ b \in Blk /\ d[b].kind = "dir"
  /\ \A c \in Blk : e[c].kind = d[c].kind
  /\ \A c \in Blk : c # b => e[c] = d[c]

LEMMA NewEnts ==
  ASSUME NEW d \in [Blk -> Content], NEW b \in Blk, d[b].kind = "dir",
         NEW ents \in [Slots -> Dirent]
  PROVE  /\ EntsChanged(d, [d EXCEPT ![b].ents = ents], b)
         /\ [d EXCEPT ![b].ents = ents][b].ents = ents
<1> DEFINE e == [d EXCEPT ![b].ents = ents]
<1>1. d[b] \in DirBlock
  BY ContentKinds
<1>2. [d[b] EXCEPT !.ents = ents] \in DirBlock
  BY <1>1 DEF DirBlock
<1>3. e[b] = [d[b] EXCEPT !.ents = ents]
  OBVIOUS
<1>4. \A c \in Blk : c # b => e[c] = d[c]
  OBVIOUS
<1>5. e[b].kind = "dir" /\ e[b].ents = ents
  BY <1>1, <1>3 DEF DirBlock
<1>6. e \in [Blk -> Content]
  BY <1>2, <1>3 DEF Content
<1> HIDE DEF e
<1>7. EntsChanged(d, e, b) /\ e[b].ents = ents
  BY <1>4, <1>5, <1>6 DEF EntsChanged
<1>. QED BY <1>7 DEF e

\* e is d with x in slot k of directory block b.
SlotSet(d, e, b, k, x) == e = [d EXCEPT ![b].ents[k] = x]

LEMMA NewEnt ==
  ASSUME NEW d \in [Blk -> Content], NEW b \in Blk, d[b].kind = "dir",
         NEW k \in Slots, NEW x \in Dirent,
         NEW e, SlotSet(d, e, b, k, x)
  PROVE  /\ EntsChanged(d, e, b)
         /\ e[b].ents[k] = x
         /\ \A l \in Slots : l # k => e[b].ents[l] = d[b].ents[l]
<1> DEFINE ents == [d[b].ents EXCEPT ![k] = x]
<1>1. d[b].ents \in [Slots -> Dirent]
  BY ContentKinds DEF DirBlock
<1>2. /\ ents \in [Slots -> Dirent]
      /\ ents[k] = x
      /\ \A l \in Slots : l # k => ents[l] = d[b].ents[l]
  BY <1>1
<1>3. e = [d EXCEPT ![b].ents = ents]
  BY DEF SlotSet
<1> HIDE DEF ents
<1>4. /\ EntsChanged(d, [d EXCEPT ![b].ents = ents], b)
      /\ [d EXCEPT ![b].ents = ents][b].ents = ents
  BY <1>2, NewEnts
<1>. QED BY <1>2, <1>3, <1>4

\* What is sound stays sound when only the entries of a directory change, as
\* long as its blocks stay marked.
LEMMA EntsKeepInodes ==
  ASSUME NEW m \in SUBSET Blk, NEW d, NEW e, NEW b, NEW m2, NEW j \in Blk,
         InodeSound(m, d, j),
         EntsChanged(d, e, b),
         Owned(d, j) \subseteq m2
  PROVE  /\ e[j] = d[j]
         /\ FewerPtrs(d, e, j)
         /\ InodeSound(m2, e, j)
         /\ Owned(e, j) = Owned(d, j)
<1>1. e[j] = d[j]
  BY DEF InodeSound, EntsChanged
<1>2. \A q \in UsedPtrs(d[j]) :
        d[j].ptrs[q] \in m2 /\ e[d[j].ptrs[q]].kind = d[d[j].ptrs[q]].kind
  BY DEF Owned, InodeSound, EntsChanged
<1>3. j \in m2
  BY DEF Owned
<1>. QED BY <1>1, <1>2, <1>3 DEF InodeSound, FewerPtrs, Owned

LEMMA EntsKeepReserved ==
  ASSUME NEW m, NEW d, NEW e, NEW b, NEW m2,
         Reserved(m, d), EntsChanged(d, e, b), {0, 1, RootInum} \subseteq m2
  PROVE  Reserved(m2, e)
<1>1. 0 \in Blk /\ 1 \in Blk /\ RootInum \in Blk
  BY LayoutAssumption DEF Blk, RootInum
<1>2. d[0].kind = "super" /\ d[1].kind = "map" /\ d[RootInum].kind = "inode"
  BY DEF Reserved, Super, BlockMap
<1>. QED BY <1>1, <1>2 DEF Reserved, EntsChanged

LEMMA SoundOwned ==
  ASSUME NEW m, NEW d, SoundImage(m, d), NEW j \in Linked(d)
  PROVE  /\ InodeSound(m, d, j)
         /\ Owned(d, j) \subseteq m
         /\ 0 \notin Owned(d, j) /\ 1 \notin Owned(d, j)
<1>1. InodeSound(m, d, j)
  BY DEF SoundImage, AllSound
<1>2. d[0].kind = "super" /\ d[1].kind = "map"
  BY DEF SoundImage, Reserved, Super, BlockMap
<1>. QED BY <1>1, <1>2 DEF InodeSound, Owned

LEMMA Relabel ==
  ASSUME NEW m, NEW d, SoundImage(m, d),
         NEW b, NEW e, EntsChanged(d, e, b),
         \A k \in Slots : e[b].ents[k].valid =>
           d[b].ents[k].valid /\ e[b].ents[k].inode = d[b].ents[k].inode
  PROVE  SoundImage(m, e)
<1>1. d \in [Blk -> Content] /\ m \in SUBSET Blk /\ e \in [Blk -> Content]
  BY DEF SoundImage, EntsChanged
<1>2. FewerEntries(d, e)
  BY DEF FewerEntries, IsEntry, EntsChanged
<1>3. EntriesMarked(m, e)
  BY <1>2 DEF FewerEntries, EntriesMarked, SoundImage
<1>4. Linked(e) \subseteq Linked(d) /\ Linked(d) \subseteq Blk
  BY <1>2, FewerLinked, LinkedTypes
<1>5. \A j \in Linked(e) : FewerPtrs(d, e, j) /\ InodeSound(m, e, j)
  BY <1>1, <1>4, EntsKeepInodes, SoundOwned
<1>6. Reserved(m, e)
  BY EntsKeepReserved DEF SoundImage, Reserved
<1>. QED BY <1>1, <1>2, <1>3, <1>5, <1>6, Shrink

-----------------------------------------------------------------------------
(***************************************************************************)
(* Removing an entry, and freeing the inode it leads to with its blocks.   *)
(***************************************************************************)
\* Slot k of block b is emptied, the others stay.
Emptied(d, e, b, k) ==
  /\ ~e[b].ents[k].valid
  /\ \A l \in Slots : l # k => e[b].ents[l] = d[b].ents[l]

\* No directory block that inode i stands for has an entry.
Hollow(d, i) == d[i].type = "dir" => \A l \in Slots : ~IsEntry(d, d[i].ptrs[0], l)

LEMMA Detach ==
  ASSUME NEW m, NEW d, SoundImage(m, d),
         NEW b \in Blk, NEW k \in Slots, IsEntry(d, b, k),
         NEW i, i = d[b].ents[k].inode, Hollow(d, i),
         NEW e, EntsChanged(d, e, b), Emptied(d, e, b, k)
  PROVE  /\ SoundImage(m \ Owned(d, i), e)
         /\ \A j \in Linked(d) : j # i => j \in Linked(e)
<1>1. /\ d \in [Blk -> Content] /\ m \in SUBSET Blk /\ e \in [Blk -> Content]
      /\ d[b].kind = "dir"
  BY DEF SoundImage, EntsChanged
<1>2. FewerEntries(d, e)
  <2> SUFFICES ASSUME NEW c \in Blk, NEW l \in Slots, IsEntry(e, c, l)
               PROVE  IsEntry(d, c, l) /\ e[c].ents[l].inode = d[c].ents[l].inode
    BY DEF FewerEntries
  <2>1. CASE c = b
    BY <2>1, <1>1 DEF IsEntry, Emptied
  <2>2. CASE c # b
    BY <2>2 DEF IsEntry, EntsChanged
  <2>. QED BY <2>1, <2>2
<1>3. Linked(e) \subseteq Linked(d) /\ Linked(d) \subseteq Blk
  BY <1>2, FewerLinked, LinkedTypes
<1>4. i \in Blk /\ i \in Linked(d) /\ i # RootInum
  <2>1. d[b].ents[k] \in Dirent
    BY <1>1, ContentKinds DEF DirBlock
  <2>2. i \in Blk
    BY <2>1, DirentTypes DEF IsEntry
  <2>. QED BY <2>2 DEF Linked, SoundImage, OneEntry
<1>5. i \notin Linked(e)
  <2> SUFFICES ASSUME NEW c \in Blk, NEW l \in Slots,
                      IsEntry(e, c, l), e[c].ents[l].inode = i
               PROVE  FALSE
    BY <1>4 DEF Linked
  <2>1. IsEntry(d, c, l) /\ d[c].ents[l].inode = i
    BY <1>2 DEF FewerEntries
  <2>2. c = b /\ l = k
    BY <2>1 DEF SoundImage, OneEntry
  <2>. QED BY <2>2 DEF IsEntry, Emptied
<1>6. \A j \in Linked(d) : j # i => j \in Linked(e)
  <2> SUFFICES ASSUME NEW j \in Linked(d), j # i, j # RootInum
               PROVE  j \in Linked(e)
    BY DEF Linked
  <2>1. PICK c \in Blk, l \in Slots : IsEntry(d, c, l) /\ d[c].ents[l].inode = j
    BY DEF Linked
  <2>2. e[c].kind = "dir" /\ e[c].ents[l] = d[c].ents[l]
    BY <2>1 DEF IsEntry, Emptied, EntsChanged
  <2>3. IsEntry(e, c, l) /\ e[c].ents[l].inode = j
    BY <2>1, <2>2 DEF IsEntry
  <2>. QED BY <2>1, <2>3, <1>3 DEF Linked
<1> DEFINE m2 == m \ Owned(d, i)
<1>7. ASSUME NEW j \in Linked(e)
      PROVE  FewerPtrs(d, e, j) /\ InodeSound(m2, e, j)
  <2>1. j \in Linked(d) /\ j # i /\ j \in Blk
    BY <1>3, <1>5
  <2>2. Owned(d, j) \cap Owned(d, i) = {}
    BY <2>1, <1>4 DEF SoundImage, NoSharing
  <2>3. Owned(d, j) \subseteq m2 /\ InodeSound(m, d, j)
    BY <2>1, <2>2, SoundOwned
  <2> HIDE DEF m2
  <2>. QED BY <2>1, <2>3, <1>1, EntsKeepInodes
<1>8. EntriesMarked(m2, e)
  <2> SUFFICES ASSUME NEW c \in Blk, NEW l \in Slots, IsEntry(e, c, l)
               PROVE  c \in m2
    BY DEF EntriesMarked
  <2>1. IsEntry(d, c, l) /\ c \in m
    BY <1>2 DEF FewerEntries, SoundImage, EntriesMarked
  <2>2. InodeSound(m, d, i)
    BY <1>4, SoundOwned
  <2>3. c \notin Owned(d, i)
    BY <2>1, <2>2 DEF Owned, InodeSound, UsedPtrs, IsEntry, Hollow
  <2>. QED BY <2>1, <2>3
<1>9. Reserved(m2, e)
  <2>1. RootInum \in Owned(d, RootInum) /\ RootInum \in Linked(d)
    BY DEF Owned, Linked
  <2>2. {0, 1, RootInum} \cap Owned(d, i) = {}
    BY <2>1, <1>4, SoundOwned DEF SoundImage, NoSharing
  <2>3. {0, 1, RootInum} \subseteq m2 /\ Reserved(m, d)
    BY <2>2 DEF SoundImage, Reserved
  <2>. QED BY <2>3, EntsKeepReserved
<1>10. m2 \in SUBSET Blk
  BY <1>1
<1>11. SoundImage(m2, e)
  <2> HIDE DEF m2
  <2>. QED BY <1>1, <1>2, <1>7, <1>8, <1>9, <1>10, Shrink
<1>. QED BY <1>6, <1>11

-----------------------------------------------------------------------------
(***************************************************************************)
(* Adding an entry for an inode that has none.                             *)
(***************************************************************************)
\* Inode i is sound, has no entry, and shares no block with those that have.
Loose(m, d, i) ==
  /\ i \in Blk /\ i \notin Linked(d)
  /\ InodeSound(m, d, i)
  /\ \A j \in Linked(d) : Owned(d, i) \cap Owned(d, j) = {}
  /\ \A q, r \in UsedPtrs(d[i]) : d[i].ptrs[q] = d[i].ptrs[r] => q = r

\* An empty file or directory in blocks S that serve nobody.
LEMMA NewLoose ==
  ASSUME NEW m, NEW d, SoundImage(m, d), NEW S, Spare(d, S), S \subseteq m,
         NEW i \in S, d[i] \in Inode,
         \/ d[i].type = "file" /\ d[i].size = 0
         \/ /\ d[i].type = "dir" /\ d[i].size # 0
            /\ d[i].ptrs[0] \in S /\ d[d[i].ptrs[0]].kind = "dir"
  PROVE  Loose(m, d, i)
<1>1. i \in Blk /\ i \notin Linked(d) /\ i \in m /\ d[i].kind = "inode"
  BY DEF Spare, Owned, Inode
<1>2. CASE d[i].type = "file" /\ d[i].size = 0
  <2>1. nblocks(d[i]) = 0
    BY <1>2, NoBlocks
  <2>2. UsedPtrs(d[i]) = {}
    BY <1>2, <2>1 DEF UsedPtrs
  <2>3. InodeSound(m, d, i)
    BY <1>1, <1>2, <2>2 DEF InodeSound
  <2>4. Owned(d, i) = {i}
    BY <2>2 DEF Owned
  <2>. QED BY <1>1, <2>2, <2>3, <2>4 DEF Loose, Spare
<1>3. CASE /\ d[i].type = "dir" /\ d[i].size # 0
           /\ d[i].ptrs[0] \in S /\ d[d[i].ptrs[0]].kind = "dir"
  <2>1. UsedPtrs(d[i]) = {0}
    BY <1>3 DEF UsedPtrs
  <2>2. InodeSound(m, d, i)
    BY <1>1, <1>3, <2>1 DEF InodeSound
  <2>3. Owned(d, i) \subseteq S
    BY <1>3, <2>1 DEF Owned
  <2>. QED BY <1>1, <2>1, <2>2, <2>3 DEF Loose, Spare
<1>. QED BY <1>2, <1>3

\* The empty slot k of block b has got an entry for inode i.
Filled(d, e, b, k, i) ==
  /\ ~d[b].ents[k].valid
  /\ e[b].ents[k].valid /\ e[b].ents[k].inode = i
  /\ \A l \in Slots : l # k => e[b].ents[l] = d[b].ents[l]

LEMMA Attach ==
  ASSUME NEW m, NEW d, SoundImage(m, d),
         NEW b \in m, NEW k \in Slots, NEW i, Loose(m, d, i),
         NEW e, EntsChanged(d, e, b), Filled(d, e, b, k, i)
  PROVE  SoundImage(m, e) /\ Linked(e) = Linked(d) \cup {i}
<1>1. /\ d \in [Blk -> Content] /\ m \in SUBSET Blk /\ e \in [Blk -> Content]
      /\ d[b].kind = "dir" /\ e[b].kind = "dir" /\ b \in Blk /\ i \in Blk
  BY DEF SoundImage, EntsChanged, Loose
<1>2. ASSUME NEW c \in Blk, NEW l \in Slots, ~(c = b /\ l = k)
      PROVE  /\ IsEntry(e, c, l) <=> IsEntry(d, c, l)
             /\ IsEntry(d, c, l) => e[c].ents[l].inode = d[c].ents[l].inode
  <2>1. CASE c = b
    <3>1. e[c].ents[l] = d[c].ents[l]
      BY <1>2, <2>1 DEF Filled
    <3>. QED BY <3>1, <2>1, <1>1 DEF IsEntry
  <2>2. CASE c # b
    BY <2>2 DEF IsEntry, EntsChanged
  <2>. QED BY <2>1, <2>2
<1>3. IsEntry(e, b, k) /\ e[b].ents[k].inode = i /\ ~IsEntry(d, b, k)
  BY <1>1 DEF IsEntry, Filled
<1>4. Linked(e) = Linked(d) \cup {i}
  <2>1. Linked(e) \subseteq Linked(d) \cup {i}
    BY <1>2, <1>3 DEF Linked
  <2>2. Linked(d) \subseteq Linked(e)
    BY <1>2, <1>3 DEF Linked
  <2>3. i \in Linked(e)
    BY <1>1, <1>3 DEF Linked
  <2>. QED BY <2>1, <2>2, <2>3
<1>5. ASSUME NEW j \in Linked(e)
      PROVE  e[j] = d[j] /\ InodeSound(m, e, j) /\ Owned(e, j) = Owned(d, j)
  <2>1. InodeSound(m, d, j) /\ j \in Blk
    BY <1>4, SoundOwned, LinkedTypes DEF Loose
  <2>2. Owned(d, j) \subseteq m
    BY <2>1 DEF InodeSound, Owned
  <2>3. m \in SUBSET Blk
    BY <1>1
  <2>. QED BY ONLY <2>1, <2>2, <2>3, EntsChanged(d, e, b), EntsKeepInodes
<1>6. NoSharing(e)
  <2>1. ASSUME NEW j \in Linked(e), NEW h \in Linked(e), j # h
        PROVE  Owned(e, j) \cap Owned(e, h) = {}
    <3>1. Owned(d, j) \cap Owned(d, h) = {}
      BY <2>1, <1>4 DEF Loose, SoundImage, NoSharing
    <3>. QED BY <3>1, <1>5
  <2>2. \A j \in Linked(e) : \A q, r \in UsedPtrs(e[j]) :
          e[j].ptrs[q] = e[j].ptrs[r] => q = r
    <3> SUFFICES ASSUME NEW j \in Linked(e), NEW q \in UsedPtrs(e[j]),
                        NEW r \in UsedPtrs(e[j]), e[j].ptrs[q] = e[j].ptrs[r]
                 PROVE  q = r
      OBVIOUS
    <3>1. e[j] = d[j]
      BY <1>5
    <3>2. CASE j = i
      BY <3>1, <3>2 DEF Loose
    <3>3. CASE j \in Linked(d)
      BY <3>1, <3>3 DEF SoundImage, NoSharing
    <3>. QED BY <3>2, <3>3, <1>4
  <2>. QED BY <2>1, <2>2 DEF NoSharing
<1>7. OneEntry(e)
  <2> SUFFICES ASSUME NEW c \in Blk, NEW f \in Blk, NEW l \in Slots, NEW n \in Slots,
                      IsEntry(e, c, l), IsEntry(e, f, n)
               PROVE  /\ e[c].ents[l].inode # RootInum
                      /\ e[c].ents[l].inode = e[f].ents[n].inode => c = f /\ l = n
    BY DEF OneEntry
  <2>1. i # RootInum
    BY DEF Loose, Linked
  <2>2. \A x \in Blk, y \in Slots : IsEntry(d, x, y) => d[x].ents[y].inode # i
    BY <1>1 DEF Loose, Linked
  <2>3. CASE c = b /\ l = k
    BY <2>1, <2>2, <2>3, <1>2, <1>3
  <2>4. CASE f = b /\ n = k
    <3>1. CASE c = b /\ l = k
      BY <3>1, <2>4, <2>1, <1>3
    <3>2. CASE ~(c = b /\ l = k)
      <4>1. IsEntry(d, c, l) /\ e[c].ents[l].inode = d[c].ents[l].inode
        BY <3>2, <1>2
      <4>. QED BY <4>1, <2>2, <2>4, <1>3 DEF SoundImage, OneEntry
    <3>. QED BY <3>1, <3>2
  <2>5. CASE ~(c = b /\ l = k) /\ ~(f = b /\ n = k)
    <3>1. /\ IsEntry(d, c, l) /\ e[c].ents[l].inode = d[c].ents[l].inode
          /\ IsEntry(d, f, n) /\ e[f].ents[n].inode = d[f].ents[n].inode
      BY <2>5, <1>2
    <3>. QED BY <3>1 DEF SoundImage, OneEntry
  <2>. QED BY <2>3, <2>4, <2>5
<1>8. EntriesMarked(m, e)
  BY <1>2 DEF SoundImage, EntriesMarked
<1>9. Reserved(m, e)
  BY EntsKeepReserved DEF SoundImage, Reserved
<1>10. AllSound(m, e)
  BY <1>5 DEF AllSound
<1>. QED BY <1>1, <1>4, <1>6, <1>7, <1>8, <1>9, <1>10 DEF SoundImage

-----------------------------------------------------------------------------
(***************************************************************************)
(* Cutting a file down to nothing, and freeing its blocks.                 *)
(***************************************************************************)
LEMMA Cut ==
  ASSUME NEW m, NEW d, SoundImage(m, d),
         NEW i \in Linked(d), d[i].type = "file",
         NEW in \in Inode, in.type = "file", in.size = 0
  PROVE  SoundImage(m \ {d[i].ptrs[q] : q \in UsedPtrs(d[i])},
                    [d EXCEPT ![i] = in])
<1> DEFINE e  == [d EXCEPT ![i] = in]
           F  == {d[i].ptrs[q] : q \in UsedPtrs(d[i])}
           m2 == m \ F
<1>0. /\ i \in Blk /\ d \in [Blk -> Content] /\ m \in SUBSET Blk /\ m2 \in SUBSET Blk
      /\ InodeSound(m, d, i) /\ in.kind = "inode"
  BY LinkedTypes, SoundOwned DEF SoundImage, Inode
<1>1. /\ e \in [Blk -> Content]
      /\ e[i] = in
      /\ \A b \in Blk : b # i => e[b] = d[b]
      /\ \A b \in Blk : e[b].kind = d[b].kind
  BY <1>0 DEF Content, InodeSound
<1>2. UsedPtrs(in) = {}
  BY NoBlocks DEF UsedPtrs
<1>3. F \subseteq Owned(d, i) /\ \A b \in F : d[b].kind = "data"
  BY <1>0 DEF InodeSound, Owned
<1>4. m2 \subseteq m /\ \A b \in m : b \notin F => b \in m2
  OBVIOUS
<1> HIDE DEF e, F, m2
<1>5. \A b \in Blk, k \in Slots :
        IsEntry(e, b, k) => IsEntry(d, b, k) /\ e[b] = d[b]
  BY <1>0, <1>1 DEF IsEntry, InodeSound
<1>6. FewerEntries(d, e)
  BY <1>5 DEF FewerEntries
<1>7. EntriesMarked(m2, e)
  BY <1>3, <1>4, <1>5 DEF EntriesMarked, SoundImage, IsEntry
<1>8. Linked(e) \subseteq Linked(d) /\ Linked(d) \subseteq Blk
  BY <1>6, FewerLinked, LinkedTypes
<1>9. ASSUME NEW j \in Linked(e)
      PROVE  FewerPtrs(d, e, j) /\ InodeSound(m2, e, j)
  <2>1. InodeSound(m, d, j) /\ j \in Blk
    BY <1>8, SoundOwned
  <2>2. CASE j = i
    <3>1. i \in m2
      BY <1>0, <1>3, <1>4 DEF InodeSound
    <3>. QED BY <2>2, <3>1, <1>0, <1>1, <1>2 DEF InodeSound, FewerPtrs
  <2>3. CASE j # i
    <3>1. Owned(d, j) \cap Owned(d, i) = {}
      BY <2>3, <1>8 DEF SoundImage, NoSharing
    <3>2. Owned(d, j) \subseteq m2
      BY <3>1, <2>1, <1>3, <1>4 DEF InodeSound, Owned
    <3>3. e[j] = d[j]
      BY <2>1, <2>3, <1>1
    <3>4. \A q \in UsedPtrs(d[j]) :
            d[j].ptrs[q] \in m2 /\ e[d[j].ptrs[q]].kind = d[d[j].ptrs[q]].kind
      BY <3>2, <2>1, <1>0, <1>1 DEF Owned, InodeSound
    <3>5. j \in m2
      BY <3>2 DEF Owned
    <3>. QED BY <2>1, <3>3, <3>4, <3>5 DEF InodeSound, FewerPtrs
  <2>. QED BY <2>2, <2>3
<1>10. Reserved(m2, e)
  <2>1. 0 \in Blk /\ 1 \in Blk /\ RootInum \in Blk
    BY LayoutAssumption DEF Blk, RootInum
  <2>2. i # 0 /\ i # 1 /\ i # RootInum /\ {0, 1, RootInum} \cap F = {}
    BY <1>0, <1>3 DEF SoundImage, Reserved, Super, BlockMap, InodeSound
  <2>. QED BY <1>1, <1>4, <2>1, <2>2 DEF SoundImage, Reserved
<1>11. SoundImage(m2, e)
  BY <1>0, <1>1, <1>6, <1>7, <1>9, <1>10, Shrink
<1>. QED BY <1>11 DEF e, m2, F

-----------------------------------------------------------------------------
(***************************************************************************)
(* Writing to a file, with blocks G allocated for the pointers New.        *)
(***************************************************************************)
\* Inode in is d[i] with the pointers New added, and they point into G.
MorePtrs(d, i, in, New, G) ==
  /\ in.kind = "inode" /\ in.type = "file"
  /\ UsedPtrs(in) = UsedPtrs(d[i]) \cup New
  /\ New \cap UsedPtrs(d[i]) = {}
  /\ \A q \in UsedPtrs(d[i]) : in.ptrs[q] = d[i].ptrs[q]
  /\ \A q \in New : in.ptrs[q] \in G
  /\ \A q, r \in New : in.ptrs[q] = in.ptrs[r] => q = r

\* e has inode in at i, data in the blocks of G, and is d everywhere else.
Written(d, e, i, in, G) ==
  /\ e \in [Blk -> Content]
  /\ e[i] = in
  /\ \A b \in G : e[b] = Data
  /\ \A b \in Blk : b # i /\ b \notin G => e[b] = d[b]

LEMMA Extend ==
  ASSUME NEW m, NEW d, SoundImage(m, d),
         NEW i \in Linked(d), d[i].type = "file",
         NEW G \in SUBSET Blk, G \cap m = {},
         NEW in, NEW New, MorePtrs(d, i, in, New, G),
         NEW e, Written(d, e, i, in, G)
  PROVE  SoundImage(m \cup G, e)
<1>1. /\ i \in Blk /\ i \in m /\ i \notin G
      /\ d \in [Blk -> Content] /\ m \in SUBSET Blk /\ m \cup G \in SUBSET Blk
      /\ InodeSound(m, d, i)
  BY LinkedTypes, SoundOwned DEF SoundImage, InodeSound
<1>2. /\ \A b \in m : b # i => e[b] = d[b]
      /\ \A b \in m : e[b].kind = d[b].kind
  BY <1>1 DEF Written, MorePtrs, InodeSound
<1>3. \A b \in Blk, k \in Slots :
        /\ IsEntry(e, b, k) <=> IsEntry(d, b, k)
        /\ IsEntry(d, b, k) => e[b] = d[b] /\ b \in m
  <2> SUFFICES ASSUME NEW b \in Blk, NEW k \in Slots
               PROVE  /\ IsEntry(e, b, k) <=> IsEntry(d, b, k)
                      /\ IsEntry(d, b, k) => e[b] = d[b] /\ b \in m
    OBVIOUS
  <2>1. IsEntry(d, b, k) => b \in m /\ b # i
    BY <1>1 DEF SoundImage, EntriesMarked, IsEntry, InodeSound
  <2>2. IsEntry(e, b, k) => b # i /\ b \notin G
    BY DEF IsEntry, Written, MorePtrs, Data
  <2>. QED BY <2>1, <2>2, <1>2 DEF IsEntry, Written
<1>4. Linked(e) = Linked(d)
  BY <1>3 DEF Linked
<1>5. ASSUME NEW j \in Linked(d), j # i
      PROVE  /\ e[j] = d[j]
             /\ InodeSound(m \cup G, e, j)
             /\ Owned(e, j) = Owned(d, j)
             /\ Owned(d, j) \subseteq m
  <2>1. InodeSound(m, d, j) /\ e[j] = d[j] /\ Owned(d, j) \subseteq m
    BY <1>2, <1>5, SoundOwned DEF InodeSound
  <2>2. \A q \in UsedPtrs(d[j]) :
          d[j].ptrs[q] \in m /\ e[d[j].ptrs[q]].kind = d[d[j].ptrs[q]].kind
    BY <2>1, <1>2 DEF InodeSound
  <2>. QED BY <2>1, <2>2 DEF InodeSound, Owned
<1>6. /\ InodeSound(m \cup G, e, i)
      /\ Owned(e, i) \subseteq Owned(d, i) \cup G
  <2>1. e[i] = in /\ in.kind = "inode" /\ in.type = "file"
    BY DEF Written, MorePtrs
  <2>2. ASSUME NEW q \in UsedPtrs(in)
        PROVE  /\ in.ptrs[q] \in m \cup G
               /\ e[in.ptrs[q]].kind = "data"
               /\ in.ptrs[q] \in Owned(d, i) \cup G
    <3>1. CASE q \in New
      BY <3>1 DEF MorePtrs, Written, Data
    <3>2. CASE q \in UsedPtrs(d[i])
      <4>1. in.ptrs[q] = d[i].ptrs[q] /\ d[i].ptrs[q] \in m
        BY <3>2, <1>1 DEF MorePtrs, InodeSound
      <4>2. d[d[i].ptrs[q]].kind = "data"
        BY <3>2, <1>1 DEF InodeSound
      <4>. QED BY <4>1, <4>2, <3>2, <1>2 DEF Owned
    <3>. QED BY <3>1, <3>2 DEF MorePtrs
  <2>3. i \in Owned(d, i)
    BY DEF Owned
  <2>4. InodeSound(m \cup G, e, i)
    BY <2>1, <2>2, <1>1 DEF InodeSound
  <2>5. Owned(e, i) \subseteq Owned(d, i) \cup G
    BY <2>1, <2>2, <2>3 DEF Owned
  <2>. QED BY <2>4, <2>5
<1>7. NoSharing(e)
  <2>1. ASSUME NEW j \in Linked(d), NEW h \in Linked(d), j # h
        PROVE  Owned(e, j) \cap Owned(e, h) = {}
    <3>1. Owned(d, j) \cap Owned(d, h) = {}
      BY <2>1 DEF SoundImage, NoSharing
    <3>2. CASE j = i
      BY <3>1, <3>2, <2>1, <1>5, <1>6
    <3>3. CASE h = i
      BY <3>1, <3>3, <2>1, <1>5, <1>6
    <3>4. CASE j # i /\ h # i
      BY <3>1, <3>4, <1>5
    <3>. QED BY <3>2, <3>3, <3>4
  <2>2. ASSUME NEW j \in Linked(d), NEW q \in UsedPtrs(e[j]), NEW r \in UsedPtrs(e[j]),
               e[j].ptrs[q] = e[j].ptrs[r]
        PROVE  q = r
    <3>1. CASE j # i
      <4>1. e[j] = d[j]
        BY <3>1, <1>5
      <4>. QED BY <4>1, <2>2 DEF SoundImage, NoSharing
    <3>2. CASE j = i
      <4>1. e[j] = in /\ UsedPtrs(in) = UsedPtrs(d[i]) \cup New
        BY <3>2 DEF Written, MorePtrs
      <4>2. CASE q \in New /\ r \in New
        BY <4>1, <4>2, <2>2 DEF MorePtrs
      <4>3. CASE q \in UsedPtrs(d[i]) /\ r \in UsedPtrs(d[i])
        BY <4>1, <4>3, <2>2 DEF MorePtrs, SoundImage, NoSharing
      <4>4. ASSUME NEW x \in New, NEW y \in UsedPtrs(d[i])
            PROVE  in.ptrs[x] # in.ptrs[y]
        BY <1>1 DEF MorePtrs, InodeSound
      <4>. QED BY <4>1, <4>2, <4>3, <4>4, <2>2
    <3>. QED BY <3>1, <3>2
  <2>. QED BY <2>1, <2>2, <1>4 DEF NoSharing
<1>8. OneEntry(e)
  BY <1>3 DEF SoundImage, OneEntry
<1>9. EntriesMarked(m \cup G, e)
  BY <1>3 DEF EntriesMarked
<1>10. Reserved(m \cup G, e)
  <2>1. i # 0 /\ i # 1 /\ i # RootInum
    BY <1>1 DEF SoundImage, Reserved, Super, BlockMap, InodeSound
  <2>. QED BY <2>1, <1>2 DEF SoundImage, Reserved
<1>11. AllSound(m \cup G, e)
  BY <1>4, <1>5, <1>6 DEF AllSound
<1>12. e \in [Blk -> Content]
  BY DEF Written
<1>. QED BY <1>1, <1>7, <1>8, <1>9, <1>10, <1>11, <1>12 DEF SoundImage

-----------------------------------------------------------------------------
(***************************************************************************)
(* What a change does to the set of blocks in use.                         *)
(***************************************************************************)
\* Of a sound image every block in use is marked.
LEMMA UseMarked ==
  ASSUME NEW m, NEW d, SoundImage(m, d)
  PROVE  InUse(d) \subseteq m
<1>1. {0, 1} \subseteq m
  BY DEF SoundImage, Reserved
<1>. QED BY <1>1, SoundOwned DEF InUse

\* Inodes that stay linked and keep their blocks keep them in use.
LEMMA UseKept ==
  ASSUME NEW d, NEW e, NEW X,
         \A j \in Linked(d) : \A x \in Owned(d, j) : x \in X \/ x \in InUse(e)
  PROVE  InUse(d) \ X \subseteq InUse(e)
BY DEF InUse

\* Entries that stay keep their inodes linked.
LEMMA StayLinked ==
  ASSUME NEW d, NEW e, NEW j \in Linked(d),
         \A b \in Blk, k \in Slots :
           IsEntry(d, b, k) /\ d[b].ents[k].inode = j =>
             IsEntry(e, b, k) /\ e[b].ents[k].inode = j
  PROVE  j \in Linked(e)
BY DEF Linked

LEMMA OwnedInUse ==
  ASSUME NEW d, NEW i \in Linked(d)
  PROVE  Owned(d, i) \subseteq InUse(d)
BY DEF InUse

LEMMA FreshUse ==
  ASSUME NEW m, NEW d, SoundImage(m, d), NEW S, NEW e, FreshIn(m, d, e, S)
  PROVE  InUse(d) \subseteq InUse(e)
<1>1. Linked(e) = Linked(d)
  BY Fresh
<1>2. ASSUME NEW j \in Linked(d) PROVE Owned(e, j) = Owned(d, j)
  <2>1. j \in Blk /\ j \notin S
    BY SoundOwned, LinkedTypes DEF InodeSound, FreshIn
  <2>2. e[j] = d[j]
    BY <2>1 DEF FreshIn
  <2>. QED BY <2>2 DEF Owned
<1>. QED BY <1>1, <1>2 DEF InUse

LEMMA TouchUse ==
  ASSUME NEW m, NEW d, SoundImage(m, d),
         NEW i \in Linked(d), NEW in \in Inode,
         in.type = d[i].type, in.size = d[i].size, in.ptrs = d[i].ptrs
  PROVE  InUse(d) \subseteq InUse([d EXCEPT ![i] = in])
<1> DEFINE e == [d EXCEPT ![i] = in]
<1>1. i \in Blk /\ d \in [Blk -> Content] /\ d[i].kind = "inode"
  BY LinkedTypes, SoundOwned DEF SoundImage, InodeSound
<1>2. e[i] = in /\ \A b \in Blk : b # i => e[b] = d[b]
  BY <1>1
<1> HIDE DEF e
<1>3. ASSUME NEW j \in Linked(d) PROVE j \in Linked(e) /\ Owned(e, j) = Owned(d, j)
  <2>1. \A b \in Blk, k \in Slots : IsEntry(d, b, k) => e[b] = d[b]
    BY <1>1, <1>2 DEF IsEntry
  <2>2. j \in Linked(e)
    BY <2>1, StayLinked DEF IsEntry
  <2>3. e[j].ptrs = d[j].ptrs /\ UsedPtrs(e[j]) = UsedPtrs(d[j])
    BY <1>2, LinkedTypes DEF UsedPtrs, nblocks
  <2>. QED BY <2>2, <2>3 DEF Owned
<1>4. InUse(d) \subseteq InUse(e)
  BY <1>3 DEF InUse
<1>. QED BY <1>4 DEF e

\* A directory block gets other entries, of inodes that were linked or not.
LEMMA RelabelUse ==
  ASSUME NEW m, NEW d, SoundImage(m, d),
         NEW b, NEW e, EntsChanged(d, e, b), NEW X,
         \A k \in Slots : d[b].ents[k].valid =>
           \/ e[b].ents[k].valid /\ e[b].ents[k].inode = d[b].ents[k].inode
           \/ Owned(d, d[b].ents[k].inode) \subseteq X
  PROVE  InUse(d) \ X \subseteq InUse(e)
<1>1. ASSUME NEW j \in Linked(d), NEW x \in Owned(d, j), x \notin X
      PROVE  x \in InUse(e)
  <2>1. Owned(e, j) = Owned(d, j)
    <3>1. m \in SUBSET Blk
      BY DEF SoundImage
    <3>2. InodeSound(m, d, j) /\ Owned(d, j) \subseteq m /\ j \in Blk
      BY SoundOwned, LinkedTypes
    <3>. QED BY <3>1, <3>2, EntsKeepInodes
  <2>2. ASSUME NEW c \in Blk, NEW k \in Slots,
               IsEntry(d, c, k), d[c].ents[k].inode = j
        PROVE  IsEntry(e, c, k) /\ e[c].ents[k].inode = j
    <3>1. CASE c # b
      BY <2>2, <3>1 DEF EntsChanged, IsEntry
    <3>2. CASE c = b
      BY <1>1, <2>2, <3>2 DEF EntsChanged, IsEntry
    <3>. QED BY <3>1, <3>2
  <2>3. j \in Linked(e)
    BY <2>2, StayLinked
  <2>. QED BY <2>1, <2>3, OwnedInUse
<1>. QED BY <1>1, UseKept

LEMMA AttachUse ==
  ASSUME NEW m, NEW d, SoundImage(m, d),
         NEW b \in m, NEW k \in Slots, NEW i, Loose(m, d, i),
         NEW e, EntsChanged(d, e, b), Filled(d, e, b, k, i)
  PROVE  InUse(d) \cup Owned(d, i) \subseteq InUse(e)
<1>1. InUse(d) \ {} \subseteq InUse(e)
  <2>1. \A l \in Slots : d[b].ents[l].valid =>
          e[b].ents[l].valid /\ e[b].ents[l].inode = d[b].ents[l].inode
    BY DEF Filled
  <2>. QED BY <2>1, RelabelUse
<1>2. i \in Linked(e)
  BY Attach
<1>3. Owned(e, i) = Owned(d, i)
  <2>1. /\ m \in SUBSET Blk /\ i \in Blk /\ InodeSound(m, d, i)
        /\ Owned(d, i) \subseteq m
    BY DEF SoundImage, Loose, InodeSound, Owned
  <2>. QED BY <2>1, EntsKeepInodes
<1>. QED BY <1>1, <1>2, <1>3, OwnedInUse

LEMMA CutUse ==
  ASSUME NEW m, NEW d, SoundImage(m, d),
         NEW i \in Linked(d), NEW in, in.kind = "inode"
  PROVE  InUse(d) \ {d[i].ptrs[q] : q \in UsedPtrs(d[i])} \subseteq
           InUse([d EXCEPT ![i] = in])
<1> DEFINE e == [d EXCEPT ![i] = in]
           X == {d[i].ptrs[q] : q \in UsedPtrs(d[i])}
<1>1. i \in Blk /\ d \in [Blk -> Content] /\ d[i].kind = "inode"
  BY LinkedTypes, SoundOwned DEF SoundImage, InodeSound
<1>2. e[i] = in /\ \A b \in Blk : b # i => e[b] = d[b]
  BY <1>1
<1>3. Owned(d, i) = {i} \cup X
  BY DEF Owned
<1> HIDE DEF e, X
<1>4. ASSUME NEW j \in Linked(d) PROVE j \in Linked(e)
  <2>1. \A b \in Blk, k \in Slots : IsEntry(d, b, k) => e[b] = d[b]
    BY <1>1, <1>2 DEF IsEntry
  <2>. QED BY <2>1, StayLinked DEF IsEntry
<1>5. ASSUME NEW j \in Linked(d), NEW x \in Owned(d, j), x \notin X
      PROVE  x \in InUse(e)
  <2>1. CASE j = i
    BY <1>3, <1>4, <1>5, <2>1, OwnedInUse DEF Owned
  <2>2. CASE j # i
    <3>1. Owned(e, j) = Owned(d, j)
      BY <1>2, <2>2, LinkedTypes DEF Owned
    <3>. QED BY <1>4, <1>5, <3>1, OwnedInUse
  <2>. QED BY <2>1, <2>2
<1>6. InUse(d) \ X \subseteq InUse(e)
  BY <1>5, UseKept
<1>. QED BY <1>6 DEF e, X

LEMMA ExtendUse ==
  ASSUME NEW m, NEW d, SoundImage(m, d),
         NEW i \in Linked(d), d[i].type = "file",
         NEW G \in SUBSET Blk, G \cap m = {},
         NEW in, NEW New, MorePtrs(d, i, in, New, G),
         NEW e, Written(d, e, i, in, G)
  PROVE  InUse(d) \cup {in.ptrs[q] : q \in New} \subseteq InUse(e)
<1>1. i \in Blk /\ d[i].kind = "inode" /\ i \notin G
  BY LinkedTypes, SoundOwned DEF InodeSound
<1>2. e[i] = in /\ \A b \in m : b # i => e[b] = d[b]
  BY DEF Written, SoundImage
<1>3. ASSUME NEW j \in Linked(d) PROVE j \in Linked(e)
  <2>1. \A b \in Blk, k \in Slots : IsEntry(d, b, k) => e[b] = d[b]
    BY <1>1, <1>2 DEF IsEntry, SoundImage, EntriesMarked
  <2>. QED BY <2>1, StayLinked DEF IsEntry
<1>4. ASSUME NEW j \in Linked(d) PROVE Owned(d, j) \subseteq Owned(e, j)
  <2>1. CASE j = i
    BY <1>2, <2>1 DEF Owned, MorePtrs
  <2>2. CASE j # i
    <3>1. j \in m
      BY SoundOwned DEF InodeSound
    <3>. QED BY <1>2, <2>2, <3>1 DEF Owned
  <2>. QED BY <2>1, <2>2
<1>5. {in.ptrs[q] : q \in New} \subseteq Owned(e, i)
  BY <1>2 DEF Owned, MorePtrs
<1>6. Owned(e, i) \subseteq InUse(e)
  BY <1>3, OwnedInUse
<1>7. InUse(d) \subseteq InUse(e)
  BY <1>3, <1>4 DEF InUse
<1>. QED BY <1>5, <1>6, <1>7
=============================================================================
