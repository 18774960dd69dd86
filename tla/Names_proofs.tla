---------------------------- MODULE Names_proofs ----------------------------
(***************************************************************************)
(* Names and paths.  The invariant IInv of Fs5600_proofs is strengthened   *)
(* by two facts about the entries: the names within a directory are        *)
(* distinct, and a chain of at most MaxDepth entries leads from the root   *)
(* to every inode (unless a name of 28 letters has been entered).          *)
(***************************************************************************)
EXTENDS Fs5600_proofs, FiniteSetTheorems

USE SoundWalkable

\* Directory c has an entry for inode i.
Child(d, c, i) ==
  /\ d[c].type = "dir"
  /\ \E b \in Blk, k \in Slots :
       b = d[c].ptrs[0] /\ IsEntry(d, b, k) /\ d[b].ents[k].inode = i

\* w leads from the root to inode i in n steps.
Chain(d, n, w, i) ==
  /\ w[0] = RootInum /\ w[n] = i
  /\ \A j \in 0 .. n - 1 : w[j] \in Linked(d) /\ Child(d, w[j], w[j + 1])

Rooted(d, n, i) == \E w : Chain(d, n, w, i)

Treelike(d) ==
  LongEntered(d) \/ \A i \in Linked(d) : \E n \in 0 .. MaxDepth : Rooted(d, n, i)

Named(d) == DistinctNames(d) /\ Treelike(d)

NamesSound == Named(disk)

-----------------------------------------------------------------------------
(***************************************************************************)
(* Chains.                                                                 *)
(***************************************************************************)
LEMMA ChainRoot ==
  ASSUME NEW d
  PROVE  Rooted(d, 0, RootInum)
<1> DEFINE w == [j \in {0} |-> RootInum]
<1>1. w[0] = RootInum /\ 0 .. 0 - 1 = {}
  OBVIOUS
<1> HIDE DEF w
<1>2. Chain(d, 0, w, RootInum)
  BY <1>1 DEF Chain
<1>. QED BY <1>2 DEF Rooted

LEMMA ChainStep ==
  ASSUME NEW d, NEW n \in Nat, NEW c \in Linked(d), Rooted(d, n, c),
         NEW i, Child(d, c, i)
  PROVE  Rooted(d, n + 1, i)
<1>1. PICK w : Chain(d, n, w, c)
  BY DEF Rooted
<1> DEFINE v == [j \in 0 .. n + 1 |-> IF j = n + 1 THEN i ELSE w[j]]
<1>2. v[n + 1] = i /\ \A j \in 0 .. n : v[j] = w[j]
  OBVIOUS
<1> HIDE DEF v
<1>3. v[0] = RootInum
  BY <1>1, <1>2 DEF Chain
<1>4. ASSUME NEW j \in 0 .. (n + 1) - 1
      PROVE  v[j] \in Linked(d) /\ Child(d, v[j], v[j + 1])
  <2>1. CASE j = n
    <3>1. v[j] = c /\ v[j + 1] = i
      BY <1>1, <1>2, <2>1 DEF Chain
    <3>. QED BY <3>1
  <2>2. CASE j # n
    <3>1. j \in 0 .. n - 1 /\ v[j] = w[j] /\ v[j + 1] = w[j + 1]
      BY <1>2, <2>2
    <3>. QED BY <1>1, <3>1 DEF Chain
  <2>. QED BY <2>1, <2>2
<1>5. Chain(d, n + 1, v, i)
  BY <1>2, <1>3, <1>4 DEF Chain
<1>. QED BY <1>5 DEF Rooted

LEMMA ChainPrefix ==
  ASSUME NEW d, NEW n \in Nat, NEW i, Rooted(d, n + 1, i)
  PROVE  \E c \in Linked(d) : Rooted(d, n, c) /\ Child(d, c, i)
<1>1. PICK w : Chain(d, n + 1, w, i)
  BY DEF Rooted
<1>2. n \in 0 .. (n + 1) - 1 /\ \A j \in 0 .. n - 1 : j \in 0 .. (n + 1) - 1
  OBVIOUS
<1>3. w[n] \in Linked(d) /\ Child(d, w[n], i)
  BY <1>1, <1>2 DEF Chain
<1>4. Chain(d, n, w, w[n])
  BY <1>1, <1>2 DEF Chain
<1>. QED BY <1>3, <1>4 DEF Rooted

\* From d to e no inode but x goes, nor any entry but that of x, and x is not
\* a directory with entries.
Stays(d, e, x) ==
  /\ \A c \in Linked(d) : c # x =>
       c \in Linked(e) /\ \A i : Child(d, c, i) /\ i # x => Child(e, c, i)
  /\ \A i : x \in Linked(d) => ~Child(d, x, i)

LEMMA ChainStays ==
  ASSUME NEW d, NEW e, NEW x, Stays(d, e, x),
         NEW n \in Nat, NEW i, i # x, Rooted(d, n, i)
  PROVE  Rooted(e, n, i)
<1>1. PICK w : Chain(d, n, w, i)
  BY DEF Rooted
<1>2. \A j \in 0 .. n - 1 : w[j] \in Linked(d) /\ Child(d, w[j], w[j + 1]) /\ w[j] # x
  BY <1>1 DEF Chain, Stays
<1>3. \A j \in 0 .. n - 1 : w[j + 1] # x
  <2> SUFFICES ASSUME NEW j \in 0 .. n - 1 PROVE w[j + 1] # x
    OBVIOUS
  <2>1. CASE j + 1 = n
    BY <1>1, <2>1 DEF Chain
  <2>2. CASE j + 1 # n
    <3>1. j + 1 \in 0 .. n - 1
      BY <2>2
    <3>. QED BY <1>2, <3>1
  <2>. QED BY <2>1, <2>2
<1>4. \A j \in 0 .. n - 1 : w[j] \in Linked(e) /\ Child(e, w[j], w[j + 1])
  BY <1>2, <1>3 DEF Stays
<1>5. Chain(e, n, w, i)
  BY <1>1, <1>4 DEF Chain
<1>. QED BY <1>5 DEF Rooted

\* An entry of d with a long name is an entry of e.
LongStay(d, e) ==
  \A b \in Blk, k \in Slots : IsEntry(d, b, k) /\ d[b].ents[k].name \in LongNames =>
    IsEntry(e, b, k) /\ e[b].ents[k].name = d[b].ents[k].name

\* If d is a tree, so is e, when what is new in e has a chain of its own.
LEMMA StaysTreelike ==
  ASSUME NEW d, NEW e, Treelike(d), LongStay(d, e), NEW x, Stays(d, e, x),
         x \notin Linked(e),
         \A i \in Linked(e) : i \in Linked(d) \/ \E n \in 0 .. MaxDepth : Rooted(e, n, i)
  PROVE  Treelike(e)
<1>1. CASE LongEntered(d)
  <2>1. LongEntered(e)
    BY <1>1 DEF LongEntered, LongStay
  <2>. QED BY <2>1 DEF Treelike
<1>2. CASE \A i \in Linked(d) : \E n \in 0 .. MaxDepth : Rooted(d, n, i)
  <2>1. ASSUME NEW i \in Linked(e) PROVE \E n \in 0 .. MaxDepth : Rooted(e, n, i)
    <3>1. CASE i \in Linked(d)
      <4>1. PICK n \in 0 .. MaxDepth : Rooted(d, n, i)
        BY <1>2, <3>1
      <4>2. Rooted(e, n, i)
        BY <4>1, ChainStays, SizesAssumption
      <4>. QED BY <4>2
    <3>. QED BY <3>1
  <2>. QED BY <2>1 DEF Treelike
<1>. QED BY <1>1, <1>2 DEF Treelike
LEMMA NoInode ==
  ASSUME NEW d
  PROVE  -1 \notin Linked(d)
BY LayoutAssumption DEF Linked, Blk, RootInum

-----------------------------------------------------------------------------
(***************************************************************************)
(* What a change of the image does to names and chains.                    *)
(***************************************************************************)
\* Besides what d has, e may have an entry n in slot k of b, where no entry
\* of d, other than in slot k itself, has that name.
OneName(d, e, b, k, n) ==
  /\ \A c \in Blk, l \in Slots : IsEntry(e, c, l) =>
       \/ c = b /\ l = k /\ e[c].ents[l].name = n
       \/ IsEntry(d, c, l) /\ e[c].ents[l].name = d[c].ents[l].name
  /\ n \notin LongNames =>
       \A l \in Slots : IsEntry(d, b, l) => d[b].ents[l].name # n

LEMMA OneNameDistinct ==
  ASSUME NEW d, NEW e, NEW b, NEW k, NEW n, DistinctNames(d), OneName(d, e, b, k, n)
  PROVE  DistinctNames(e)
<1> SUFFICES ASSUME NEW c \in Blk, NEW j \in Slots, NEW l \in Slots,
                    IsEntry(e, c, j), IsEntry(e, c, l),
                    e[c].ents[j].name = e[c].ents[l].name,
                    e[c].ents[j].name \notin LongNames
             PROVE  j = l
  BY DEF DistinctNames
<1>1. /\ \/ c = b /\ j = k /\ e[c].ents[j].name = n
         \/ IsEntry(d, c, j) /\ e[c].ents[j].name = d[c].ents[j].name
      /\ \/ c = b /\ l = k /\ e[c].ents[l].name = n
         \/ IsEntry(d, c, l) /\ e[c].ents[l].name = d[c].ents[l].name
      /\ n \notin LongNames =>
           \A s \in Slots : IsEntry(d, b, s) => d[b].ents[s].name # n
  BY DEF OneName
<1>. QED BY <1>1 DEF DistinctNames

\* e has the entries of d, and the directories of d are where they were.
Quiet(d, e) ==
  /\ \A b \in Blk, k \in Slots : IsEntry(e, b, k) => IsEntry(d, b, k)
  /\ \A b \in Blk, k \in Slots : IsEntry(d, b, k) =>
       IsEntry(e, b, k) /\ e[b].ents[k] = d[b].ents[k]
  /\ \A c \in Linked(d) : d[c].type = "dir" =>
       e[c].type = "dir" /\ e[c].ptrs[0] = d[c].ptrs[0]

LEMMA QuietStays ==
  ASSUME NEW d, NEW e, Quiet(d, e), NEW c \in Linked(d), NEW i, Child(d, c, i)
  PROVE  Child(e, c, i)
BY DEF Quiet, Child

LEMMA QuietNamed ==
  ASSUME NEW d, NEW e, Quiet(d, e), Named(d)
  PROVE  Named(e) /\ Linked(e) = Linked(d)
<1>1. Linked(e) = Linked(d)
  BY DEF Quiet, Linked
<1>2. DistinctNames(e)
  BY DEF Named, Quiet, DistinctNames
<1>3. Stays(d, e, -1)
  BY <1>1, QuietStays, NoInode DEF Stays
<1>4. LongStay(d, e)
  BY DEF Quiet, LongStay
<1>5. Treelike(e)
  BY <1>1, <1>3, <1>4, NoInode, StaysTreelike DEF Named
<1>. QED BY <1>1, <1>2, <1>5 DEF Named

LEMMA FreshQuiet ==
  ASSUME NEW m, NEW d, SoundImage(m, d), NEW S, NEW e, FreshIn(m, d, e, S)
  PROVE  Quiet(d, e)
<1>1. \A b \in Blk, k \in Slots : IsEntry(d, b, k) => b \in m
  BY DEF SoundImage, EntriesMarked
<1>2. \A c \in Linked(d) : c \in m /\ c \in Blk
  BY DEF SoundImage, AllSound, InodeSound
<1>3. \A b \in m : e[b] = d[b]
  BY DEF FreshIn, SoundImage
<1>4. \A b \in Blk, k \in Slots : IsEntry(e, b, k) => IsEntry(d, b, k)
  BY DEF FreshIn, IsEntry
<1>. QED BY <1>1, <1>2, <1>3, <1>4 DEF Quiet, IsEntry

\* Another version of an inode.
LEMMA TouchQuiet ==
  ASSUME NEW d \in [Blk -> Content], NEW i \in Blk, d[i].kind = "inode",
         NEW in \in Inode, in.type = d[i].type, in.ptrs = d[i].ptrs
  PROVE  Quiet(d, [d EXCEPT ![i] = in])
<1> DEFINE e == [d EXCEPT ![i] = in]
<1>1. \A b \in Blk : e[b] = IF b = i THEN in ELSE d[b]
  OBVIOUS
<1>2. in.kind = "inode"
  BY DEF Inode
<1>3. \A c \in Linked(d) : c \in Blk
  BY LayoutAssumption DEF Linked, Blk, RootInum
<1> HIDE DEF e
<1>4. Quiet(d, e)
  BY <1>1, <1>2, <1>3 DEF Quiet, IsEntry
<1>. QED BY <1>4 DEF e

LEMMA WriteQuiet ==
  ASSUME NEW m, NEW d, SoundImage(m, d), NEW i \in Linked(d), d[i].type = "file",
         NEW G, G \cap m = {}, NEW in, in.kind = "inode",
         NEW e, Written(d, e, i, in, G)
  PROVE  Quiet(d, e)
<1>1. \A b \in Blk, k \in Slots : IsEntry(d, b, k) => b \in m
  BY DEF SoundImage, EntriesMarked
<1>2. \A c \in Linked(d) : c \in m /\ c \in Blk /\ d[c].kind = "inode"
  BY DEF SoundImage, AllSound, InodeSound
<1>3. \A b \in m : b # i => e[b] = d[b]
  BY DEF Written, SoundImage
<1>4. \A b \in Blk : e[b].kind = "dir" => e[b] = d[b]
  BY DEF Written, Data
<1>. QED BY <1>1, <1>2, <1>3, <1>4 DEF Quiet, IsEntry
\* No entry of directory block b has name n.
NameFree(d, b, n) == \A l \in Slots : IsEntry(d, b, l) => d[b].ents[l].name # n

\* The directories of d are directories of e, with the same blocks.
LEMMA DirsStay ==
  ASSUME NEW m, NEW d, SoundImage(m, d), NEW b, NEW e, EntsChanged(d, e, b),
         NEW c \in Linked(d)
  PROVE  e[c] = d[c]
BY DEF EntsChanged, SoundImage, AllSound, InodeSound

\* A new inode is entered in a directory that is not too deep.
LEMMA AttachNamed ==
  ASSUME NEW m, NEW d, SoundImage(m, d), Named(d),
         NEW par \in Linked(d), d[par].type = "dir",
         NEW n \in Nat, n < MaxDepth, Rooted(d, n, par),
         NEW b \in m, b = d[par].ptrs[0], NEW k \in Slots, NEW i, Loose(m, d, i),
         NEW e, EntsChanged(d, e, b), Filled(d, e, b, k, i),
         e[b].ents[k].name \notin LongNames, NameFree(d, b, e[b].ents[k].name)
  PROVE  Named(e)
<1>1. Linked(e) = Linked(d) \cup {i}
  BY ONLY SoundImage(m, d), b \in m, k \in Slots, Loose(m, d, i),
          EntsChanged(d, e, b), Filled(d, e, b, k, i), Attach
<1>2. \A c \in Linked(d) : e[c] = d[c]
  BY DirsStay
<1>3. \A c \in Blk, l \in Slots : IsEntry(d, c, l) =>
        IsEntry(e, c, l) /\ e[c].ents[l] = d[c].ents[l]
  BY ONLY EntsChanged(d, e, b), Filled(d, e, b, k, i) DEF IsEntry, EntsChanged, Filled
<1>4. Stays(d, e, -1)
  <2>1. \A c \in Linked(d) : \A j : Child(d, c, j) => Child(e, c, j)
    BY ONLY <1>2, <1>3 DEF Child
  <2>. QED BY ONLY <1>1, <2>1, NoInode DEF Stays
<1>5. LongStay(d, e)
  BY ONLY <1>3 DEF LongStay
<1>6. Rooted(e, n + 1, i)
  <2>1. b \in Blk
    BY DEF EntsChanged
  <2>2. IsEntry(e, b, k) /\ e[b].ents[k].inode = i
    BY ONLY EntsChanged(d, e, b), Filled(d, e, b, k, i) DEF IsEntry, EntsChanged, Filled
  <2>3. Child(e, par, i)
    BY <1>2, <2>1, <2>2 DEF Child
  <2>4. Rooted(e, n, par)
    <3>1. par # -1
      BY NoInode
    <3>. QED BY ONLY <1>4, <3>1, n \in Nat, Rooted(d, n, par), ChainStays
  <2>5. par \in Linked(e)
    BY <1>1
  <2>. QED BY ONLY <2>3, <2>4, <2>5, n \in Nat, ChainStep
<1>7. n + 1 \in 0 .. MaxDepth
  BY ONLY n \in Nat, n < MaxDepth, SizesAssumption
<1>8. Treelike(e)
  BY <1>1, <1>4, <1>5, <1>6, <1>7, NoInode, StaysTreelike DEF Named
<1>9. OneName(d, e, b, k, e[b].ents[k].name)
  <2>1. \A c \in Blk, l \in Slots : IsEntry(e, c, l) /\ ~(c = b /\ l = k) =>
          IsEntry(d, c, l) /\ e[c].ents[l] = d[c].ents[l]
    BY ONLY EntsChanged(d, e, b), Filled(d, e, b, k, i) DEF IsEntry, EntsChanged, Filled
  <2>. QED BY ONLY <2>1, NameFree(d, b, e[b].ents[k].name) DEF OneName, NameFree
<1>10. DistinctNames(e)
  BY ONLY <1>9, Named(d), OneNameDistinct DEF Named
<1>. QED BY <1>8, <1>10 DEF Named

\* An entry is given another name.
LEMMA RelabelNamed ==
  ASSUME NEW m, NEW d, SoundImage(m, d), Named(d), NEW b \in Blk, NEW k \in Slots,
         IsEntry(d, b, k), d[b].ents[k].name \notin LongNames,
         NEW n, n \notin LongNames => NameFree(d, b, n),
         NEW e, EntsChanged(d, e, b), Renamed(d, e, b, k, n)
  PROVE  Named(e)
<1>1. OneName(d, e, b, k, n)
  BY DEF OneName, NameFree, IsEntry, EntsChanged, Renamed
<1>2. DistinctNames(e)
  BY <1>1, OneNameDistinct DEF Named
<1>3. CASE n \in LongNames
  <2>1. IsEntry(e, b, k) /\ e[b].ents[k].name = n
    BY DEF IsEntry, EntsChanged, Renamed
  <2>2. LongEntered(e)
    BY <1>3, <2>1 DEF LongEntered
  <2>. QED BY <1>2, <2>2 DEF Named, Treelike
<1>4. CASE n \notin LongNames
  <2>1. \A c \in Blk, l \in Slots : IsEntry(d, c, l) =>
          IsEntry(e, c, l) /\ e[c].ents[l].inode = d[c].ents[l].inode
    BY <1>4 DEF IsEntry, EntsChanged, Renamed
  <2>2. \A c \in Blk, l \in Slots : IsEntry(e, c, l) => IsEntry(d, c, l)
    BY DEF IsEntry, EntsChanged, Renamed
  <2>3. Linked(e) = Linked(d)
    BY <2>1, <2>2 DEF Linked
  <2>4. \A c \in Linked(d) : e[c] = d[c]
    BY DirsStay
  <2>5. \A c \in Linked(d) : \A j : Child(d, c, j) => Child(e, c, j)
    BY <2>1, <2>4 DEF Child
  <2>6. Stays(d, e, -1)
    BY <2>3, <2>5, NoInode DEF Stays
  <2>7. LongStay(d, e)
    BY <2>1 DEF LongStay, IsEntry, EntsChanged, Renamed
  <2>8. Treelike(e)
    BY <2>3, <2>6, <2>7, NoInode, StaysTreelike DEF Named
  <2>. QED BY <1>2, <2>8 DEF Named
<1>. QED BY <1>3, <1>4

\* The entry of a file or an empty directory is removed.
LEMMA DetachNamed ==
  ASSUME NEW m, NEW d, SoundImage(m, d), Named(d), NEW b \in Blk, NEW k \in Slots,
         IsEntry(d, b, k), d[b].ents[k].name \notin LongNames,
         NEW i, i = d[b].ents[k].inode, Hollow(d, i),
         NEW e, EntsChanged(d, e, b), Emptied(d, e, b, k)
  PROVE  Named(e)
<1>1. \A j \in Linked(d) : j # i => j \in Linked(e)
  <2>1. i = d[b].ents[k].inode /\ Hollow(d, i)
    OBVIOUS
  <2>. QED BY <2>1, Detach, Zenon
<1>2. \A c \in Linked(d) : e[c] = d[c]
  BY DirsStay
<1>3. \A c \in Blk, l \in Slots : IsEntry(d, c, l) /\ ~(c = b /\ l = k) =>
        IsEntry(e, c, l) /\ e[c].ents[l] = d[c].ents[l]
  BY DEF IsEntry, EntsChanged, Emptied
<1>4. \A c \in Blk, l \in Slots : IsEntry(e, c, l) =>
        IsEntry(d, c, l) /\ ~(c = b /\ l = k) /\ e[c].ents[l] = d[c].ents[l]
  BY DEF IsEntry, EntsChanged, Emptied
<1>5. i # RootInum /\ \A c \in Blk, l \in Slots : IsEntry(d, c, l) /\ ~(c = b /\ l = k) =>
        d[c].ents[l].inode # i
  BY DEF SoundImage, OneEntry
<1>6. i \notin Linked(e) /\ Linked(e) \subseteq Linked(d)
  BY <1>4, <1>5 DEF Linked
<1>7. Stays(d, e, i)
  <2>1. \A c \in Linked(d) : \A j : Child(d, c, j) /\ j # i => Child(e, c, j)
    BY <1>2, <1>3 DEF Child
  <2>2. \A j : ~Child(d, i, j)
    BY DEF Child, Hollow
  <2>. QED BY <1>1, <2>1, <2>2 DEF Stays
<1>8. LongStay(d, e)
  BY <1>3 DEF LongStay
<1>9. Treelike(e)
  BY <1>6, <1>7, <1>8, StaysTreelike DEF Named
<1>10. DistinctNames(e)
  BY <1>4 DEF Named, DistinctNames
<1>. QED BY <1>9, <1>10 DEF Named
-----------------------------------------------------------------------------
(***************************************************************************)
(* The handlers.                                                           *)
(***************************************************************************)
LEMMA EndsNamed ==
  ASSUME NEW m, NEW d, NEW r, Return(m, d, r) \/ Abort(m, d), Named(d)
  PROVE  NamesSound'
<1>1. disk' = d
  BY DEF Return, Abort
<1>. QED BY <1>1 DEF NamesSound

LEMMA SameNamed ==
  ASSUME NamesSound, disk' = disk
  PROVE  NamesSound'
BY DEF NamesSound

LEMMA FailNamed ==
  ASSUME NamesSound, NEW r, Fail(r)
  PROVE  NamesSound'
BY SameNamed DEF Fail

\* A path that exists spells a chain of its length.
LEMMA PathRooted ==
  ASSUME Walkable
  PROVE  \A p \in Paths : path2inum(p) \in Linked(disk) => Rooted(disk, Len(p), path2inum(p))
<1> DEFINE T == {n \in Nat : \A p \in Paths : Len(p) = n /\ path2inum(p) \in Linked(disk) =>
                               Rooted(disk, n, path2inum(p))}
<1>1. 0 \in T
  <2> SUFFICES ASSUME NEW p \in Paths, Len(p) = 0
               PROVE  Rooted(disk, 0, path2inum(p))
    OBVIOUS
  <2>1. path2inum(p) = RootInum
    BY Visited
  <2>. QED BY <2>1, ChainRoot
<1>2. \A n \in Nat : n \in T => n + 1 \in T
  <2> SUFFICES ASSUME NEW n \in Nat, n \in T, NEW p \in Paths, Len(p) = n + 1,
                      path2inum(p) \in Linked(disk)
               PROVE  Rooted(disk, n + 1, path2inum(p))
    OBVIOUS
  <2>1. p # <<>>
    BY EmptySeq, PathTypes
  <2>2. Front(p) \in Paths /\ Len(Front(p)) = n
    BY <2>1, FrontTypes
  <2> DEFINE par == path2inum(Front(p))
             k   == Min(Hits(par, Last(p)))
             b   == DirBlkOf(par)
  <2>3. /\ par \in Linked(disk) /\ S_ISDIR(par) /\ k \in Slots /\ Dirs(par)[k].valid
        /\ Dirs(par)[k].inode = path2inum(p)
    BY <2>1, Found
  <2> HIDE DEF k, par
  <2>4. IsEntry(disk, b, k) /\ b \in Blk
    BY <2>3, EntryLinked, DirNode
  <2>5. Child(disk, par, path2inum(p))
    BY <2>3, <2>4 DEF Child, S_ISDIR, Dirs, DirBlkOf
  <2>6. Rooted(disk, n, par)
    BY <2>2, <2>3 DEF par
  <2>. QED BY <2>3, <2>5, <2>6, ChainStep
<1>3. Nat \subseteq T
  <2> HIDE DEF T
  <2>. QED BY <1>1, <1>2, SetInduction
<1>. QED BY <1>3, PathTypes

\* create and mkdir: the name was missing.
LEMMA MadeNamed ==
  ASSUME IInv, NamesSound, NEW p \in Paths, create_errno(p) = 0, Made(p)
  PROVE  NamesSound'
<1> DEFINE par == path2inum(Front(p))
           b   == DirBlkOf(par)
<1>0. PICK i, m, d : NewlyMade(m, d, i) /\ add_entry(p, i, m, d)
  BY DEF Made
<1>1. /\ m = map \cup Owned(d, i) /\ FreshIn(map, disk, d, Owned(d, i))
      /\ SoundImage(m, d) /\ Loose(m, d, i)
  BY <1>0 DEF NewlyMade
<1>2. Sound /\ i \in Blk /\ d \in [Blk -> Content]
  BY <1>1 DEF IInv, Loose, SoundImage
<1>3. \A c \in map : d[c] = disk[c]
  BY <1>1, <1>2 DEF FreshIn, Sound, SoundImage
<1>4. Quiet(disk, d)
  BY <1>1, <1>2, FreshQuiet DEF Sound
<1>5. Named(d) /\ Linked(d) = Linked(disk)
  BY <1>4, QuietNamed DEF NamesSound
<1>6. /\ par \in Linked(disk) /\ S_ISDIR(par) /\ b \in map /\ d[b] = disk[b]
      /\ \/ Return(m, d, -EINVAL)
         \/ \E k \in Slots : \E e :
              /\ EntsChanged(d, e, b) /\ Filled(d, e, b, k, i)
              /\ e[b].ents[k].name = Last(p) /\ Return(m, e, 0)
  BY <1>0, <1>2, <1>3, AddShape
<1>7. CASE Return(m, d, -EINVAL)
  BY <1>5, <1>7, EndsNamed
<1>8. ASSUME NEW k \in Slots, NEW e, EntsChanged(d, e, b), Filled(d, e, b, k, i),
             e[b].ents[k].name = Last(p), Return(m, e, 0)
      PROVE  NamesSound'
  <2>1. /\ p # <<>> /\ path2inum(p) \in Missing /\ Last(p) \notin LongNames
    BY <1>2, CreateAllowed
  <2>2. Hits(par, Last(p)) = {}
    BY <1>2, <1>6, <2>1, NotFound
  <2>3. NameFree(disk, b, Last(p))
    BY <2>2 DEF NameFree, Hits, Dirs, IsEntry
  <2>4. NameFree(d, b, Last(p))
    BY <1>6, <2>3 DEF NameFree, IsEntry
  <2>5. Front(p) \in Paths /\ Len(Front(p)) \in Nat /\ Len(Front(p)) < MaxDepth
    <3>1. Front(p) \in Paths /\ Len(Front(p)) = Len(p) - 1 /\ Len(p) \in Nat \ {0}
      BY <2>1, FrontTypes
    <3>2. Len(p) <= MaxDepth
      BY PathTypes, SizesAssumption DEF Paths, SeqOf
    <3>. QED BY <3>1, <3>2, SizesAssumption
  <2>6. Rooted(disk, Len(Front(p)), par)
    BY <1>2, <1>6, <2>5, PathRooted
  <2> DEFINE n == Len(Front(p))
  <2>7. n \in Nat /\ n < MaxDepth /\ Rooted(disk, n, par)
    BY <2>5, <2>6
  <2>8. d[par] = disk[par]
    BY <1>2, <1>3, <1>6, LinkedInode
  <2>9. d[par].type = "dir" /\ b = d[par].ptrs[0] /\ b \in m
    BY <1>1, <1>6, <2>8 DEF S_ISDIR, DirBlkOf
  <2> HIDE DEF n, par, b
  <2>10. Rooted(d, n, par)
    <3>1. Stays(disk, d, -1)
      BY <1>4, <1>5, QuietStays, NoInode DEF Stays
    <3>2. par # -1
      BY <1>6, NoInode
    <3>. QED BY <2>7, <3>1, <3>2, ChainStays
  <2>11. Named(e)
    BY <1>1, <1>5, <1>6, <1>8, <2>1, <2>4, <2>7, <2>9, <2>10, AttachNamed
  <2>. QED BY <1>8, <2>11, EndsNamed
<1>. QED BY <1>6, <1>7, <1>8

LEMMA CreateNamed ==
  ASSUME IInv, NamesSound, NEW p \in Paths, NEW perm \in Perms, NEW now \in Times,
         fs_create(p, perm, now)
  PROVE  NamesSound'
<1>1. CASE Fail(create_errno(p)) \/ Abort(map, disk)
  BY <1>1, SameNamed DEF Fail, Abort
<1>. QED BY <1>1, CreateShape, MadeNamed DEF IInv

LEMMA MkdirNamed ==
  ASSUME IInv, NamesSound, NEW p \in Paths, NEW perm \in Perms, NEW now \in Times,
         fs_mkdir(p, perm, now)
  PROVE  NamesSound'
<1>1. ASSUME Fail(create_errno(p)) \/ \E m : Abort(m, disk)
      PROVE  NamesSound'
  BY <1>1, SameNamed DEF Fail, Abort
<1>. QED BY <1>1, MkdirShape, MadeNamed DEF IInv
\* rename: the new name was missing, or is too long to be looked up.
LEMMA RenameNamed ==
  ASSUME IInv, NamesSound, NEW src \in Paths, NEW dst \in Paths, fs_rename(src, dst)
  PROVE  NamesSound'
<1> DEFINE par == path2inum(Front(src))
           b   == DirBlkOf(par)
<1>1. Sound
  BY DEF IInv
<1>2. CASE Fail(rename_errno(src, dst))
  BY <1>2, FailNamed
<1>3. ASSUME par \in Linked(disk), S_ISDIR(par),
             path2inum(Front(dst)) = par, dst # <<>>, path2inum(dst) \in Missing,
             NEW k \in Slots, NEW e,
             IsEntry(disk, b, k), disk[b].ents[k].name \notin LongNames,
             EntsChanged(disk, e, b), Renamed(disk, e, b, k, Last(dst)),
             Return(map, e, 0)
      PROVE  NamesSound'
  <2>1. Last(dst) \notin LongNames => NameFree(disk, b, Last(dst))
    <3>1. Last(dst) \notin LongNames => Hits(par, Last(dst)) = {}
      BY <1>1, <1>3, NotFound
    <3>. QED BY <3>1 DEF NameFree, Hits, Dirs, IsEntry
  <2>2. b \in Blk
    BY <1>3 DEF EntsChanged
  <2> HIDE DEF par, b
  <2>3. Named(e)
    BY <1>1, <1>3, <2>1, <2>2, RelabelNamed DEF NamesSound, Sound
  <2>. QED BY <1>3, <2>3, EndsNamed
<1>. QED BY <1>1, <1>2, <1>3, RenameShape

\* unlink and rmdir: what is removed was found, so its name is not too long.
LEMMA RemoveNamed ==
  ASSUME IInv, NamesSound, NEW p \in Paths, p # <<>>, NEW now \in Times,
         NEW B, RemovesAll(p, B), remove(p, B, now)
  PROVE  NamesSound'
<1> DEFINE i   == path2inum(p)
           par == path2inum(Front(p))
           b   == DirBlkOf(par)
           m   == map \ (B \cup {i})
           h   == Min(Hits(par, Last(p)))
<1>1. Sound /\ i \in Linked(disk) /\ i # par /\ Hollow(disk, i)
  BY DEF IInv, RemovesAll
<1>2. PICK k, e, in :
        /\ k \in Slots /\ IsEntry(disk, b, k) /\ disk[b].ents[k].inode = i
        /\ EntsChanged(disk, e, b) /\ Emptied(disk, e, b, k)
        /\ SameShape(e, par, in)
        /\ Return(m, [e EXCEPT ![par] = in], 0)
  BY <1>1, RemoveShape
<1>3. /\ par \in Linked(disk) /\ S_ISDIR(par) /\ h \in Slots /\ Dirs(par)[h].valid
      /\ Dirs(par)[h].name = Last(p) /\ Dirs(par)[h].inode = i
      /\ Last(p) \notin LongNames
  BY <1>1, Found
<1>4. b \in Blk
  BY <1>2 DEF EntsChanged
<1> HIDE DEF i, par, m, h
<1>5. disk[b].ents[k].name \notin LongNames
  <2>1. IsEntry(disk, b, h) /\ disk[b].ents[h] = Dirs(par)[h]
    BY <1>1, <1>3, EntryLinked DEF Dirs
  <2>2. h = k
    BY <1>1, <1>2, <1>3, <1>4, <2>1 DEF Sound, SoundImage, OneEntry
  <2>. QED BY <1>3, <2>1, <2>2
<1> HIDE DEF b
<1>6. Named(e)
  BY <1>1, <1>2, <1>4, <1>5, DetachNamed DEF NamesSound, Sound
<1>7. Named([e EXCEPT ![par] = in])
  <2>1. par \in Blk /\ disk[par].kind = "inode" /\ e[par] = disk[par]
    BY <1>1, <1>2, <1>3, LinkedInode, DirsStay DEF Sound
  <2>2. Quiet(e, [e EXCEPT ![par] = in])
    BY <1>2, <2>1, TouchQuiet DEF SameShape, EntsChanged
  <2>. QED BY <1>6, <2>2, QuietNamed
<1>. QED BY <1>2, <1>7, EndsNamed

LEMMA UnlinkNamed ==
  ASSUME IInv, NamesSound, NEW p \in Paths, p # <<>>, NEW now \in Times,
         fs_unlink(p, now)
  PROVE  NamesSound'
<1>1. CASE Fail(unlink_errno(p))
  BY <1>1, FailNamed
<1>. QED BY <1>1, UnlinkShape, RemoveNamed DEF IInv

LEMMA RmdirNamed ==
  ASSUME IInv, NamesSound, NEW p \in Paths, p # <<>>, NEW now \in Times,
         fs_rmdir(p, now)
  PROVE  NamesSound'
<1>1. CASE Fail(rmdir_errno(p))
  BY <1>1, FailNamed
<1>. QED BY <1>1, RmdirShape, RemoveNamed DEF IInv

\* chmod, utime and truncate replace an inode by another version of it.
LEMMA InodeNamed ==
  ASSUME IInv, NamesSound, NEW i \in Linked(disk), NEW in \in Inode,
         in.type = disk[i].type, in.ptrs = disk[i].ptrs,
         NEW m, NEW r, Return(m, [disk EXCEPT ![i] = in], r)
  PROVE  NamesSound'
<1>1. disk \in [Blk -> Content] /\ i \in Blk /\ disk[i].kind = "inode"
  BY LinkedInode DEF IInv, TypeOK
<1>2. Quiet(disk, [disk EXCEPT ![i] = in])
  BY <1>1, TouchQuiet
<1>3. Named([disk EXCEPT ![i] = in])
  BY <1>2, QuietNamed DEF NamesSound
<1>. QED BY <1>3, EndsNamed

LEMMA ChmodNamed ==
  ASSUME IInv, NamesSound, NEW p \in Paths, NEW perm \in Perms, fs_chmod(p, perm)
  PROVE  NamesSound'
<1> DEFINE i  == path2inum(p)
           in == [disk[i] EXCEPT !.perm = perm]
<1>1. Sound
  BY DEF IInv
<1>2. CASE Fail(-ENOENT)
  BY <1>2, FailNamed
<1>3. CASE Exists(p) /\ Return(map, [disk EXCEPT ![i].perm = perm], 0)
  <2>1. i \in Linked(disk)
    BY <1>1, <1>3, ExistsLinked
  <2>2. SameShape(disk, i, in)
    BY <1>1, <2>1, LinkedInode, SetPerm
  <2>3. Return(map, [disk EXCEPT ![i] = in], 0)
    BY <1>3
  <2> HIDE DEF i, in
  <2>. QED BY <2>1, <2>2, <2>3, InodeNamed DEF SameShape
<1>. QED BY <1>2, <1>3 DEF fs_chmod

LEMMA UtimeNamed ==
  ASSUME IInv, NamesSound, NEW p \in Paths, NEW t \in Times, fs_utime(p, t)
  PROVE  NamesSound'
<1> DEFINE i  == path2inum(p)
           in == [disk[i] EXCEPT !.mtime = t]
<1>1. Sound
  BY DEF IInv
<1>2. CASE Fail(file_errno(p))
  BY <1>2, FailNamed
<1>3. CASE file_errno(p) = 0 /\ Return(map, [disk EXCEPT ![i].mtime = t], 0)
  <2>1. i \in Linked(disk)
    BY <1>1, <1>3, FileFound
  <2>2. SameShape(disk, i, in)
    BY <1>1, <2>1, LinkedInode, SetMtime
  <2>3. Return(map, [disk EXCEPT ![i] = in], 0)
    BY <1>3
  <2> HIDE DEF i, in
  <2>. QED BY <2>1, <2>2, <2>3, InodeNamed DEF SameShape
<1>. QED BY <1>2, <1>3 DEF fs_utime

LEMMA TruncateNamed ==
  ASSUME IInv, NamesSound, NEW p \in Paths, NEW len, fs_truncate(p, len)
  PROVE  NamesSound'
<1> DEFINE i  == path2inum(p)
           in == [disk[i] EXCEPT !.size = 0]
           m  == free_blk(map, FileBlocks(i))
<1>1. Sound
  BY DEF IInv
<1>2. CASE Fail(-EINVAL) \/ Fail(file_errno(p))
  BY <1>2, FailNamed
<1>3. CASE file_errno(p) = 0 /\ Return(m, [disk EXCEPT ![i].size = 0], 0)
  <2>1. i \in Linked(disk)
    BY <1>1, <1>3, FileFound
  <2>2. in \in Inode /\ in.type = disk[i].type /\ in.ptrs = disk[i].ptrs
    BY <1>1, <2>1, LinkedInode, Sizes DEF Inode
  <2>3. Return(m, [disk EXCEPT ![i] = in], 0)
    BY <1>3
  <2> HIDE DEF i, in, m
  <2>. QED BY <2>1, <2>2, <2>3, InodeNamed
<1>. QED BY <1>2, <1>3 DEF fs_truncate

LEMMA WriteNamed ==
  ASSUME IInv, NamesSound, NEW p \in Paths, NEW off \in Nat, NEW len \in Nat,
         NEW now \in Times, fs_write(p, off, len, now)
  PROVE  NamesSound'
<1> DEFINE i   == path2inum(p)
           New == NewPtrs(disk[i].size, off, len)
<1>1. Sound
  BY DEF IInv
<1>2. CASE Fail(write_answer(p, off, len))
  BY <1>2, FailNamed
<1>3. CASE Abort(map \cup FreeBits(map), FilledDisk)
  <2>1. Quiet(disk, FilledDisk)
    BY <1>1, WriteAborts, FreshQuiet DEF Sound
  <2>2. Named(FilledDisk)
    BY <2>1, QuietNamed DEF NamesSound
  <2>. QED BY <1>3, <2>2, EndsNamed
<1>4. ASSUME i \in Linked(disk), disk[i].type = "file", off <= disk[i].size,
             NEW g \in AllocEach(New), NEW new,
             Grown(disk[i], new, g, New, off, len),
             Return(map \cup Targets(g, New), WrittenDisk(i, new, off, len), len)
      PROVE  NamesSound'
  <2> DEFINE G == Targets(g, New)
             e == WrittenDisk(i, new, off, len)
  <2> HIDE DEF i, New
  <2>1. G \cap map = {} /\ Written(disk, e, i, new, G)
    BY <1>1, <1>4, WriteExtends DEF New
  <2>2. new.kind = "inode"
    BY <1>4 DEF Grown, Inode
  <2> HIDE DEF G, e
  <2>3. Quiet(disk, e)
    BY <1>1, <1>4, <2>1, <2>2, WriteQuiet DEF Sound
  <2>4. Named(e)
    BY <2>3, QuietNamed DEF NamesSound
  <2>. QED BY <1>4, <2>4, EndsNamed DEF e
<1>5. \/ Fail(write_answer(p, off, len))
      \/ Abort(map \cup FreeBits(map), FilledDisk)
      \/ /\ i \in Linked(disk) /\ disk[i].type = "file" /\ off <= disk[i].size
         /\ \E g \in AllocEach(New) : \E new :
              /\ Grown(disk[i], new, g, New, off, len)
              /\ Return(map \cup Targets(g, New), WrittenDisk(i, new, off, len), len)
  BY <1>1, WriteShape
<1> HIDE DEF i, New
<1>. QED BY <1>2, <1>3, <1>4, <1>5
-----------------------------------------------------------------------------
\* The image of gen-disk.py has no entries at all.
LEMMA InitNamed == Init => NamesSound
<1> SUFFICES ASSUME Init PROVE NamesSound
  OBVIOUS
<1>1. PICK perm \in Perms, t \in Times : disk = Image(perm, t)
  BY DEF Init
<1>2. \A b \in Blk, k \in Slots : ~IsEntry(disk, b, k)
  <2>1. ASSUME NEW b \in Blk
        PROVE  disk[b].kind # "dir" \/ disk[b] = EmptyDir
    BY <1>1 DEF Image, Super, BlockMap, NewInode, Zeros
  <2>2. \A k \in Slots : ~EmptyDir.ents[k].valid
    BY DEF EmptyDir, EmptySlot
  <2>. QED BY <2>1, <2>2 DEF IsEntry
<1>3. Linked(disk) = {RootInum} /\ DistinctNames(disk)
  BY <1>2 DEF Linked, DistinctNames
<1>4. Treelike(disk)
  BY <1>3, ChainRoot, SizesAssumption DEF Treelike
<1>. QED BY <1>3, <1>4 DEF NamesSound, Named

LEMMA StepNamed == IInv /\ NamesSound /\ [Next]_vars => NamesSound'
<1> SUFFICES ASSUME IInv, NamesSound, [Next]_vars PROVE NamesSound'
  OBVIOUS
<1>1. CASE UNCHANGED vars
  BY <1>1, SameNamed DEF vars
<1>2. CASE fs_init
  BY <1>2, SameNamed DEF fs_init
<1>3. CASE \E p \in Paths, perm \in Perms, now \in Times : fs_create(p, perm, now)
  BY <1>3, CreateNamed
<1>4. CASE \E p \in Paths, perm \in Perms, now \in Times : fs_mkdir(p, perm, now)
  BY <1>4, MkdirNamed
<1>5. CASE \E p \in Paths \ {<<>>}, now \in Times : fs_unlink(p, now)
  BY <1>5, UnlinkNamed
<1>6. CASE \E p \in Paths \ {<<>>}, now \in Times : fs_rmdir(p, now)
  BY <1>6, RmdirNamed
<1>7. CASE \E src, dst \in Paths : fs_rename(src, dst)
  BY <1>7, RenameNamed
<1>8. CASE \E p \in Paths, perm \in Perms : fs_chmod(p, perm)
  BY <1>8, ChmodNamed
<1>9. CASE \E p \in Paths, t \in Times : fs_utime(p, t)
  BY <1>9, UtimeNamed
<1>10. CASE \E p \in Paths, len \in {0} \cup Lengths : fs_truncate(p, len)
  BY <1>10, TruncateNamed
<1>11. CASE \E p \in Paths, off \in Offsets, len \in Lengths, now \in Times :
              fs_write(p, off, len, now)
  BY <1>11, RequestAssumption, WriteNamed
<1>. QED BY <1>1, <1>2, <1>3, <1>4, <1>5, <1>6, <1>7, <1>8, <1>9, <1>10, <1>11 DEF Next

LEMMA NamesInvariance == Spec => []NamesSound
BY InitNamed, StepNamed, Invariance, PTL DEF Spec

\* No sequence of create, mkdir and rename gives two entries of a directory
\* one name that a lookup can ask for.
THEOREM NamesDistinct == Spec => []UniqueNames
<1>1. NamesSound => UniqueNames
  BY DEF NamesSound, Named, UniqueNames
<1>. QED BY <1>1, NamesInvariance, PTL

-----------------------------------------------------------------------------
(***************************************************************************)
(* Every inode has one path.                                               *)
(***************************************************************************)
LEMMA RootPath == <<>> \in Paths /\ Len(<<>>) = 0
<1>1. <<>> \in [1 .. 0 -> AllNames] /\ Len(<<>>) = 0
  OBVIOUS
<1>. QED BY <1>1, SizesAssumption DEF Paths, SeqOf

LEMMA ChildPath ==
  ASSUME NEW p \in Paths, Len(p) < MaxDepth, NEW n \in AllNames
  PROVE  LET q == Append(p, n)
         IN  q \in Paths /\ q # <<>> /\ Front(q) = p /\ Last(q) = n
<1> DEFINE q == Append(p, n)
<1>1. p \in Seq(AllNames) /\ Len(p) \in Nat
  BY PathTypes
<1>2. q \in Seq(AllNames) /\ Len(q) = Len(p) + 1
  BY <1>1
<1>3. q \in Paths
  <2>1. q \in [1 .. Len(p) + 1 -> AllNames]
    BY <1>1, <1>2, LenProperties
  <2>2. Len(p) + 1 \in 0 .. MaxDepth
    BY <1>1, SizesAssumption
  <2>. QED BY <2>1, <2>2 DEF Paths, SeqOf
<1>4. q # <<>>
  BY <1>1, <1>2
<1>5. Last(q) = n
  BY <1>1, <1>2 DEF Last
<1>6. Front(q) = p
  BY <1>1, <1>2 DEF Front
<1>. QED BY <1>3, <1>4, <1>5, <1>6

\* An entry with a short name is what the lookup of its name finds.
LEMMA ChildFound ==
  ASSUME Sound, UniqueNames, NEW p \in Paths, Len(p) < MaxDepth,
         path2inum(p) \in Linked(disk), S_ISDIR(path2inum(p)),
         NEW k \in Slots, Dirs(path2inum(p))[k].valid,
         Dirs(path2inum(p))[k].name \notin LongNames
  PROVE  LET i == path2inum(p)
             q == Append(p, Dirs(i)[k].name)
         IN  /\ q \in Paths /\ path2inum(q) = Dirs(i)[k].inode
             /\ path2inum(q) \in Linked(disk)
<1> DEFINE i == path2inum(p)
           n == Dirs(i)[k].name
           q == Append(p, n)
<1>1. DirBlkOf(i) \in Blk /\ Dirs(i) \in [Slots -> Dirent]
  BY DirOf
<1>2. n \in AllNames
  BY <1>1, DirentTypes
<1>3. q \in Paths /\ q # <<>> /\ Front(q) = p /\ Last(q) = n
  BY <1>2, ChildPath
<1>4. k \in Hits(i, n) /\ i \in Linked(disk) /\ S_ISDIR(i) /\ n \notin LongNames
  BY DEF Hits
<1>5. Dirs(i)[k].valid /\ Dirs(i)[k].name = n
  OBVIOUS
<1> HIDE DEF n, q
<1>6. path2inum(q) \in Linked(disk)
  BY <1>3, <1>4, PathResult, NotFound
<1>7. PICK l \in Slots : /\ Dirs(i)[l].valid /\ Dirs(i)[l].name = n
                         /\ Dirs(i)[l].inode = path2inum(q)
  BY <1>3, <1>6, Found
<1> HIDE DEF i
<1>8. l = k
  <2>1. IsEntry(disk, DirBlkOf(i), k) /\ IsEntry(disk, DirBlkOf(i), l)
    BY <1>4, <1>5, <1>7, EntryLinked
  <2>. QED BY <1>1, <1>4, <1>5, <1>7, <2>1 DEF UniqueNames, DistinctNames, Dirs
<1>. QED BY <1>3, <1>6, <1>7, <1>8 DEF i, n, q

\* A chain spells a path, as long as the names on it can be looked up.
LEMMA SomePath ==
  ASSUME Sound, UniqueNames, ~LongEntered(disk)
  PROVE  \A n \in 0 .. MaxDepth : \A i : Rooted(disk, n, i) =>
           \E p \in Paths : path2inum(p) = i
<1> DEFINE Spelt(n, i) == \E p \in Paths : Len(p) = n /\ path2inum(p) = i
           T == {n \in Nat : n <= MaxDepth => \A i : Rooted(disk, n, i) => Spelt(n, i)}
<1> HIDE DEF Spelt
<1>1. 0 \in T
  <2> SUFFICES ASSUME NEW i, Rooted(disk, 0, i) PROVE Spelt(0, i)
    OBVIOUS
  <2>1. i = RootInum
    BY DEF Rooted, Chain
  <2>2. <<>> \in Paths /\ Len(<<>>) = 0
    BY RootPath
  <2>3. path2inum(<<>>) = RootInum
    BY <2>2, Visited
  <2>. QED BY <2>1, <2>2, <2>3 DEF Spelt
<1>2. \A n \in Nat : n \in T => n + 1 \in T
  <2> SUFFICES ASSUME NEW n \in Nat, n \in T, n + 1 <= MaxDepth,
                      NEW i, Rooted(disk, n + 1, i)
               PROVE  Spelt(n + 1, i)
    OBVIOUS
  <2>1. PICK c \in Linked(disk) : Rooted(disk, n, c) /\ Child(disk, c, i)
    BY ONLY n \in Nat, Rooted(disk, n + 1, i), ChainPrefix
  <2>2. n <= MaxDepth /\ n < MaxDepth
    BY SizesAssumption
  <2>3. PICK p \in Paths : Len(p) = n /\ path2inum(p) = c
    BY <2>1, <2>2 DEF Spelt
  <2>4. PICK k \in Slots : /\ DirBlkOf(c) \in Blk /\ S_ISDIR(c)
                           /\ IsEntry(disk, DirBlkOf(c), k) /\ Dirs(c)[k].inode = i
    BY <2>1 DEF Child, DirBlkOf, S_ISDIR, Dirs
  <2>5. Dirs(c)[k].valid /\ Dirs(c)[k].name \notin LongNames
    BY <2>4 DEF IsEntry, Dirs, LongEntered
  <2> DEFINE q == Append(p, Dirs(c)[k].name)
  <2>6. q \in Paths /\ path2inum(q) = i
    BY <2>2, <2>3, <2>4, <2>5, ChildFound
  <2>7. Len(q) = n + 1
    BY <2>3, PathTypes
  <2>. QED BY <2>6, <2>7 DEF Spelt
<1>3. Nat \subseteq T
  <2> HIDE DEF T
  <2>. QED BY <1>1, <1>2, SetInduction
<1>. QED BY <1>3, SizesAssumption DEF Spelt

\* The path of the parent and the last name determine a path.
LEMMA PathSplit ==
  ASSUME NEW p \in Paths, NEW q \in Paths, p # <<>>, q # <<>>,
         Front(p) = Front(q), Last(p) = Last(q)
  PROVE  p = q
<1> DEFINE n == Len(p)
<1>1. /\ n \in Nat \ {0} /\ Len(q) = n /\ p[n] = q[n]
      /\ \A j \in 1 .. n - 1 : p[j] = q[j]
  BY FrontTypes
<1>2. p \in Seq(AllNames) /\ q \in Seq(AllNames)
  BY PathTypes
<1>3. \A j \in 1 .. n : p[j] = q[j]
  BY <1>1
<1>. QED BY <1>1, <1>2, <1>3, SeqEqual

\* The entry that leads to what p names, if p is not the root.
LEMMA EntryOf ==
  ASSUME Sound, NEW p \in Paths, p # <<>>, path2inum(p) \in Linked(disk)
  PROVE  LET par == path2inum(Front(p))
             b   == DirBlkOf(par)
         IN  /\ Front(p) \in Paths /\ Len(Front(p)) = Len(p) - 1
             /\ par \in Linked(disk) /\ b \in Blk /\ b \in Owned(disk, par)
             /\ path2inum(p) # RootInum
             /\ \E k \in Slots : /\ IsEntry(disk, b, k) /\ disk[b].ents[k].name = Last(p)
                                 /\ disk[b].ents[k].inode = path2inum(p)
<1> DEFINE par == path2inum(Front(p))
           b   == DirBlkOf(par)
           k   == Min(Hits(par, Last(p)))
<1>1. /\ par \in Linked(disk) /\ S_ISDIR(par) /\ k \in Slots /\ Dirs(par)[k].valid
      /\ Dirs(par)[k].name = Last(p) /\ Dirs(par)[k].inode = path2inum(p)
  BY Found
<1>2. Front(p) \in Paths /\ Len(Front(p)) = Len(p) - 1
  BY FrontTypes
<1> HIDE DEF par, k
<1>3. b \in Blk /\ IsEntry(disk, b, k) /\ path2inum(p) # RootInum
  BY <1>1, EntryLinked, DirOf
<1>4. b \in Owned(disk, par)
  BY <1>1 DEF Owned, UsedPtrs, S_ISDIR, DirBlkOf
<1>. QED BY <1>1, <1>2, <1>3, <1>4 DEF Dirs, par

LEMMA NoTwoPaths ==
  ASSUME Sound
  PROVE  \A p, q \in Paths : path2inum(p) = path2inum(q) /\ path2inum(p) \in Linked(disk)
           => p = q
<1> DEFINE T == {n \in Nat : \A p, q \in Paths :
                   Len(p) = n /\ path2inum(p) = path2inum(q) /\ path2inum(p) \in Linked(disk)
                   => p = q}
<1>1. path2inum(<<>>) = RootInum
  BY RootPath, Visited
<1>2. \A p \in Paths : Len(p) = 0 <=> p = <<>>
  BY PathTypes, EmptySeq
<1>3. 0 \in T
  BY <1>1, <1>2, EntryOf
<1>4. \A n \in Nat : n \in T => n + 1 \in T
  <2> SUFFICES ASSUME NEW n \in Nat, n \in T, NEW p \in Paths, NEW q \in Paths,
                      Len(p) = n + 1, path2inum(p) = path2inum(q),
                      path2inum(p) \in Linked(disk)
               PROVE  p = q
    OBVIOUS
  <2>1. p # <<>> /\ q # <<>>
    BY <1>1, <1>2, EntryOf
  <2> DEFINE x == path2inum(Front(p))
             y == path2inum(Front(q))
             b == DirBlkOf(x)
             c == DirBlkOf(y)
  <2>2. PICK k \in Slots : /\ IsEntry(disk, b, k) /\ disk[b].ents[k].name = Last(p)
                           /\ disk[b].ents[k].inode = path2inum(p)
    BY <2>1, EntryOf
  <2>3. PICK l \in Slots : /\ IsEntry(disk, c, l) /\ disk[c].ents[l].name = Last(q)
                           /\ disk[c].ents[l].inode = path2inum(p)
    BY <2>1, EntryOf
  <2>4. /\ x \in Linked(disk) /\ b \in Blk /\ b \in Owned(disk, x)
        /\ y \in Linked(disk) /\ c \in Blk /\ c \in Owned(disk, y)
        /\ Front(p) \in Paths /\ Front(q) \in Paths /\ Len(Front(p)) = n
    BY <2>1, EntryOf
  <2> HIDE DEF b, c, x, y
  <2>5. b = c /\ k = l
    BY <2>2, <2>3, <2>4 DEF Sound, SoundImage, OneEntry
  <2>6. x = y
    BY <2>4, <2>5 DEF Sound, SoundImage, NoSharing
  <2>7. Front(p) = Front(q)
    BY <2>4, <2>6 DEF x, y
  <2>. QED BY <2>1, <2>2, <2>3, <2>5, <2>7, PathSplit
<1>5. Nat \subseteq T
  <2> HIDE DEF T
  <2>. QED BY <1>3, <1>4, SetInduction
<1>. QED BY <1>5, PathTypes

LEMMA PathsCounted == IInv /\ NamesSound => OnePath
<1> SUFFICES ASSUME IInv, NamesSound, NEW i \in Linked(disk)
             PROVE  LET found == {p \in Paths : path2inum(p) = i}
                    IN  Cardinality(found) = 1 \/ (found = {} /\ LongEntered(disk))
  BY DEF OnePath
<1> DEFINE found == {p \in Paths : path2inum(p) = i}
<1>1. Sound /\ UniqueNames /\ Treelike(disk)
  BY DEF IInv, NamesSound, Named, UniqueNames
<1>2. CASE found = {}
  <2>1. \A n \in 0 .. MaxDepth : Rooted(disk, n, i) => LongEntered(disk)
    BY <1>1, <1>2, SomePath
  <2>2. LongEntered(disk)
    BY <1>1, <2>1 DEF Treelike
  <2>. QED BY <1>2, <2>2
<1>3. CASE found # {}
  <2>1. PICK p \in Paths : path2inum(p) = i
    BY <1>3
  <2>2. found = {p}
    BY <1>1, <2>1, NoTwoPaths
  <2>. QED BY <2>2, FS_Singleton
<1>. QED BY <1>2, <1>3

\* The entries form a tree: every inode is found along exactly one path, until
\* a name of 28 letters hides some of them, and never along two.
THEOREM PathsUnique == Spec => []OnePath
BY PathsCounted, NamesInvariance, Invariance, PTL

-----------------------------------------------------------------------------
(***************************************************************************)
(* readdir and getattr.                                                    *)
(***************************************************************************)
\* getattr succeeds on the paths that exist.
LEMMA GetattrFinds ==
  ASSUME Sound, NEW q \in Paths
  PROVE  /\ fs_getattr(q).ret = 0 <=> path2inum(q) \in Linked(disk)
         /\ path2inum(q) \in Linked(disk) =>
              fs_getattr(q).stat = inode2stat(path2inum(q))
<1>1. Exists(q) <=> path2inum(q) \in Linked(disk)
  BY ExistsLinked
<1>2. CASE Exists(q)
  <2>1. path2inum(q) # -ENOTDIR
    BY <1>2, ExistsLinked DEF Missing
  <2>2. path_errno(q) = 0
    BY <1>2, <2>1 DEF path_errno
  <2>. QED BY <1>1, <1>2, <2>2 DEF fs_getattr
<1>3. CASE ~Exists(q)
  <2>1. path_errno(q) = IF path2inum(q) = -ENOTDIR THEN -ENOTDIR ELSE -ENOENT
    BY <1>3 DEF path_errno
  <2>2. path_errno(q) # 0
    BY <2>1 DEF ENOTDIR, ENOENT
  <2>. QED BY <1>1, <1>3, <2>2 DEF fs_getattr
<1>. QED BY <1>2, <1>3

LEMMA SameListing == IInv /\ UniqueNames => ReaddirAgrees
<1> SUFFICES ASSUME IInv, UniqueNames, NEW p \in Paths,
                    fs_readdir(p).ret = 0, Len(p) < MaxDepth
             PROVE  {f \in fs_readdir(p).filled : f[1] \notin LongNames} =
                      {<<n, fs_getattr(Append(p, n)).stat>> :
                         n \in {x \in AllNames : fs_getattr(Append(p, x)).ret = 0}}
  BY DEF ReaddirAgrees
<1> DEFINE i    == path2inum(p)
           K    == {k \in Slots : Dirs(i)[k].valid}
           L    == {<<Dirs(i)[k].name, inode2stat(Dirs(i)[k].inode)>> : k \in K}
           N    == {x \in AllNames : fs_getattr(Append(p, x)).ret = 0}
           R    == {<<n, fs_getattr(Append(p, n)).stat>> : n \in N}
<1>1. Sound
  BY DEF IInv
<1>2. Exists(p) /\ S_ISDIR(i) /\ fs_readdir(p).filled = L
  BY DEF fs_readdir, ENOENT, ENOTDIR
<1>3. i \in Linked(disk)
  BY <1>1, <1>2, ExistsLinked
<1>4. DirBlkOf(i) \in Blk /\ Dirs(i) \in [Slots -> Dirent]
  BY <1>1, <1>2, <1>3, DirOf
<1> HIDE DEF i
\* The entry that getattr finds.
<1>5. ASSUME NEW n \in N
      PROVE  \E k \in K : /\ Dirs(i)[k].name = n /\ n \notin LongNames
                          /\ fs_getattr(Append(p, n)).stat = inode2stat(Dirs(i)[k].inode)
  <2> DEFINE q == Append(p, n)
  <2>1. q \in Paths /\ q # <<>> /\ Front(q) = p /\ Last(q) = n
    BY ChildPath
  <2> HIDE DEF q
  <2>2. path2inum(q) \in Linked(disk) /\ fs_getattr(q).stat = inode2stat(path2inum(q))
    BY <1>1, <2>1, GetattrFinds DEF q
  <2>3. PICK k \in Slots : /\ Dirs(i)[k].valid /\ Dirs(i)[k].name = n
                           /\ Dirs(i)[k].inode = path2inum(q) /\ n \notin LongNames
    BY <1>1, <2>1, <2>2, Found DEF i
  <2>. QED BY <2>2, <2>3 DEF q
\* An entry that readdir lists.
<1>6. ASSUME NEW k \in K, Dirs(i)[k].name \notin LongNames
      PROVE  /\ Dirs(i)[k].name \in N
             /\ fs_getattr(Append(p, Dirs(i)[k].name)).stat = inode2stat(Dirs(i)[k].inode)
  <2> DEFINE n == Dirs(i)[k].name
             q == Append(p, n)
  <2>1. n \in AllNames
    BY <1>4, DirentTypes
  <2>2. q \in Paths /\ q # <<>> /\ Front(q) = p /\ Last(q) = n
    BY <2>1, ChildPath
  <2> HIDE DEF q, n
  <2>4. path2inum(q) = Dirs(i)[k].inode /\ path2inum(q) \in Linked(disk)
    BY <1>1, <1>2, <1>3, <1>6, ChildFound DEF i, n, q
  <2>7. /\ fs_getattr(q).ret = 0
        /\ fs_getattr(q).stat = inode2stat(Dirs(i)[k].inode)
    BY <1>1, <2>2, <2>4, GetattrFinds
  <2>. QED BY <2>1, <2>7 DEF q, n
<1>7. {f \in L : f[1] \notin LongNames} \subseteq R
  <2> SUFFICES ASSUME NEW k \in K, Dirs(i)[k].name \notin LongNames
               PROVE  <<Dirs(i)[k].name, inode2stat(Dirs(i)[k].inode)>> \in R
    OBVIOUS
  <2> HIDE DEF K, N
  <2>. QED BY <1>6
<1>8. R \subseteq {f \in L : f[1] \notin LongNames}
  <2> SUFFICES ASSUME NEW n \in N
               PROVE  /\ <<n, fs_getattr(Append(p, n)).stat>> \in L
                      /\ n \notin LongNames
    OBVIOUS
  <2> HIDE DEF K, N
  <2>. QED BY <1>5
<1>. QED BY <1>2, <1>7, <1>8

\* What readdir lists and what getattr finds are the same, for every name that
\* fits an entry.
THEOREM ListingAgrees == Spec => []ReaddirAgrees
BY SameListing, NamesDistinct, Invariance, PTL
=============================================================================
