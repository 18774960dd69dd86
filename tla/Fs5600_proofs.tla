---------------------------- MODULE Fs5600_proofs ---------------------------
(***************************************************************************)
(* Theorems about Fs5600, for every value of the constants: the type       *)
(* invariant, and the soundness of the image after any sequence of         *)
(* requests, aborts and remounts.                                          *)
(***************************************************************************)
EXTENDS FsInvariants, FsImage_proofs, NatLemmas, SequenceTheorems

(***************************************************************************)
(* Paths.                                                                  *)
(***************************************************************************)
LEMMA PathTypes ==
  ASSUME NEW p \in Paths
  PROVE  /\ p \in Seq(AllNames)
         /\ Len(p) \in Nat
         /\ \A j \in 1 .. Len(p) : p[j] \in AllNames
BY SizesAssumption DEF Paths, SeqOf

LEMMA FrontTypes ==
  ASSUME NEW p \in Paths, p # <<>>
  PROVE  /\ Front(p) \in Paths
         /\ Len(p) \in Nat \ {0}
         /\ Len(Front(p)) = Len(p) - 1
         /\ \A j \in 1 .. Len(p) - 1 : Front(p)[j] = p[j]
         /\ Last(p) = p[Len(p)]
         /\ Last(p) \in AllNames
<1> DEFINE n == Len(p)
<1>1. p \in Seq(AllNames) /\ n \in Nat \ {0} /\ n <= MaxDepth
  BY PathTypes, EmptySeq, SizesAssumption DEF Paths, SeqOf
<1>2. \A j \in 1 .. n : p[j] \in AllNames
  BY PathTypes
<1>3. /\ Front(p) \in Seq(AllNames)
      /\ Len(Front(p)) = n - 1
      /\ \A j \in 1 .. n - 1 : Front(p)[j] = p[j]
  <2>1. \A j \in 1 .. n - 1 : p[j] \in AllNames
    BY <1>1, <1>2
  <2>2. 1 \in Int /\ n - 1 \in Int /\ (n - 1) - 1 + 1 = n - 1
    BY <1>1
  <2>3. /\ SubSeq(p, 1, n - 1) \in Seq(AllNames)
        /\ Len(SubSeq(p, 1, n - 1)) = IF 1 <= n - 1 THEN (n - 1) - 1 + 1 ELSE 0
        /\ \A j \in 1 .. (n - 1) - 1 + 1 : SubSeq(p, 1, n - 1)[j] = p[1 + j - 1]
    BY <2>1, <2>2, SubSeqProperties
  <2>4. Front(p) = SubSeq(p, 1, n - 1)
    BY DEF Front
  <2>5. Front(p) \in Seq(AllNames)
    BY <2>3, <2>4
  <2>6. Len(Front(p)) = n - 1
    <3> HIDE DEF n
    <3>1. n - 1 = IF 1 <= n - 1 THEN (n - 1) - 1 + 1 ELSE 0
      BY ONLY <1>1
    <3>. QED BY ONLY <2>3, <2>4, <3>1, Zenon
  <2>7. ASSUME NEW j \in 1 .. n - 1 PROVE Front(p)[j] = p[j]
    <3>1. 1 + j - 1 = j
      OBVIOUS
    <3>2. SubSeq(p, 1, n - 1)[j] = p[1 + j - 1]
      BY <2>2, <2>3
    <3>. QED BY ONLY <2>4, <3>1, <3>2, Zenon
  <2>. QED BY <2>5, <2>6, <2>7
<1>4. Front(p) \in Paths
  <2>1. Front(p) \in [1 .. n - 1 -> AllNames]
    BY <1>3, LenProperties
  <2>2. n - 1 \in 0 .. MaxDepth
    BY <1>1, SizesAssumption
  <2>. QED BY <2>1, <2>2 DEF Paths, SeqOf
<1>. QED BY <1>1, <1>2, <1>3, <1>4 DEF Last

-----------------------------------------------------------------------------
(***************************************************************************)
(* Path translation.  The recursive function of path2inum exists, so each  *)
(* turn of its loop is walk applied to the result of the turn before.      *)
(***************************************************************************)
IsWalk(p, n, w) ==
  w = [j \in 0 .. n |-> IF j = 0 THEN RootInum ELSE walk(p, j, w[j - 1])]

LEMMA WalkExists ==
  ASSUME NEW p, NEW n \in Nat
  PROVE  \E w : IsWalk(p, n, w)
<1> DEFINE T == {m \in Nat : \E w : IsWalk(p, m, w)}
<1>1. 0 \in T
  <2> DEFINE w == [j \in 0 .. 0 |-> RootInum]
  <2>1. w = [j \in 0 .. 0 |-> IF j = 0 THEN RootInum ELSE walk(p, j, w[j - 1])]
    OBVIOUS
  <2>. QED BY <2>1 DEF IsWalk
<1>2. ASSUME NEW m \in Nat, m \in T PROVE m + 1 \in T
  <2>1. PICK g : IsWalk(p, m, g)
    BY <1>2
  <2> DEFINE h == [j \in 0 .. m + 1 |-> IF j = m + 1 THEN walk(p, j, g[m]) ELSE g[j]]
             f == [j \in 0 .. m + 1 |-> IF j = 0 THEN RootInum ELSE walk(p, j, h[j - 1])]
  <2>2. ASSUME NEW j \in 0 .. m + 1 PROVE h[j] = f[j]
    <3>1. CASE j = m + 1
      <4>1. h[m] = g[m] /\ m + 1 - 1 = m /\ j # 0
        BY <3>1
      <4>2. h[j] = walk(p, j, g[m]) /\ f[j] = walk(p, j, h[j - 1])
        BY <3>1, <4>1
      <4>. QED BY <3>1, <4>1, <4>2
    <3>2. CASE j = 0
      BY <2>1, <3>2 DEF IsWalk
    <3>3. CASE j # 0 /\ j # m + 1
      <4>1. j \in 0 .. m /\ j - 1 \in 0 .. m /\ h[j] = g[j] /\ h[j - 1] = g[j - 1]
        BY <3>3
      <4>2. g[j] = walk(p, j, g[j - 1])
        BY <2>1, <3>3, <4>1 DEF IsWalk
      <4>3. f[j] = walk(p, j, h[j - 1])
        BY <3>3
      <4>. QED BY <4>1, <4>2, <4>3
    <3>. QED BY <3>1, <3>2, <3>3
  <2>3. h = f
    <3>1. h = [j \in 0 .. m + 1 |-> h[j]] /\ f = [j \in 0 .. m + 1 |-> f[j]]
      OBVIOUS
    <3> HIDE DEF h, f
    <3>. QED BY <2>2, <3>1
  <2>4. IsWalk(p, m + 1, h)
    BY <2>3 DEF IsWalk
  <2>. QED BY <2>4
<1>3. Nat \subseteq T
  <2> HIDE DEF T
  <2>. QED BY <1>1, <1>2, SetInduction
<1>. QED BY <1>3

\* The numbers of the inodes that path2inum visits.
visited(p) == CHOOSE w : IsWalk(p, Len(p), w)

LEMMA Visited ==
  ASSUME NEW p, Len(p) \in Nat
  PROVE  /\ visited(p)[0] = RootInum
         /\ \A j \in 1 .. Len(p) : visited(p)[j] = walk(p, j, visited(p)[j - 1])
         /\ path2inum(p) = visited(p)[Len(p)]
<1>1. IsWalk(p, Len(p), visited(p))
  BY WalkExists DEF visited
<1>2. path2inum(p) = visited(p)[Len(p)]
  BY DEF path2inum, visited, IsWalk
<1>3. \A j \in 0 .. Len(p) : visited(p)[j] =
        IF j = 0 THEN RootInum ELSE walk(p, j, visited(p)[j - 1])
  BY <1>1 DEF IsWalk
<1>4. visited(p)[0] = RootInum
  BY <1>3
<1>5. \A j \in 1 .. Len(p) : visited(p)[j] = walk(p, j, visited(p)[j - 1])
  BY <1>3
<1>. QED BY <1>2, <1>4, <1>5

(***************************************************************************)
(* What soundness gives the handlers.                                      *)
(***************************************************************************)
Sound == SoundImage(map, disk)

\* Path translation does not look at the map.  It needs an image that is sound
\* for some map, and so for the map with all bits set.
Walkable == SoundImage(Blk, disk)

LEMMA SoundWalkable == Sound => Walkable
BY Widen DEF Sound, Walkable, SoundImage

LEMMA LinkedNode ==
  ASSUME Walkable, NEW i \in Linked(disk)
  PROVE  /\ i \in Blk /\ i \in Nat /\ i > 0
         /\ disk[i] \in Inode /\ disk[i].kind = "inode"
<1>1. i \in Blk /\ disk \in [Blk -> Content]
  BY LinkedTypes DEF Walkable, SoundImage
<1>2. InodeSound(Blk, disk, i)
  BY SoundOwned DEF Walkable
<1>3. disk[i].kind = "inode"
  BY <1>2 DEF InodeSound
<1>4. disk[i] \in Inode
  BY <1>1, <1>3, ContentKinds
<1>5. disk[0] = Super
  BY DEF Walkable, SoundImage, Reserved
<1>6. i # 0
  BY <1>3, <1>5 DEF Super
<1>7. i \in Nat /\ i > 0
  BY <1>1, <1>6, LayoutAssumption DEF Blk
<1>. QED BY <1>1, <1>3, <1>4, <1>7

LEMMA DirNode ==
  ASSUME Walkable, NEW c \in Linked(disk), S_ISDIR(c)
  PROVE  /\ DirBlkOf(c) \in Blk
         /\ disk[DirBlkOf(c)].kind = "dir"
         /\ disk[DirBlkOf(c)] \in DirBlock
         /\ Dirs(c) \in [Slots -> Dirent]
         /\ disk[c].size # 0
<1>1. InodeSound(Blk, disk, c)
  BY SoundOwned DEF Walkable
<1>2. disk \in [Blk -> Content]
  BY DEF Walkable, SoundImage
<1>3. UsedPtrs(disk[c]) = {0} /\ disk[c].type = "dir"
  BY DEF S_ISDIR, UsedPtrs
<1>4. DirBlkOf(c) \in Blk /\ disk[DirBlkOf(c)].kind = "dir" /\ disk[c].size # 0
  BY <1>1, <1>3 DEF InodeSound, DirBlkOf
<1>5. disk[DirBlkOf(c)] \in DirBlock
  BY <1>2, <1>4, ContentKinds
<1>6. Dirs(c) \in [Slots -> Dirent]
  BY <1>5 DEF Dirs, DirBlock
<1>. QED BY <1>4, <1>5, <1>6

LEMMA EntryLinked ==
  ASSUME Walkable, NEW c \in Linked(disk), S_ISDIR(c),
         NEW k \in Slots, Dirs(c)[k].valid
  PROVE  /\ IsEntry(disk, DirBlkOf(c), k)
         /\ Dirs(c)[k].inode \in Linked(disk)
         /\ Dirs(c)[k].inode # RootInum
<1>1. /\ DirBlkOf(c) \in Blk /\ disk[DirBlkOf(c)].kind = "dir"
      /\ Dirs(c) \in [Slots -> Dirent]
  BY DirNode
<1>2. IsEntry(disk, DirBlkOf(c), k)
  BY <1>1 DEF IsEntry, Dirs
<1>3. Dirs(c)[k] \in Dirent
  BY <1>1
<1>4. Dirs(c)[k].inode \in Blk
  BY <1>3, DirentTypes
<1>5. Dirs(c)[k].inode \in Linked(disk)
  BY <1>1, <1>2, <1>4 DEF Linked, Dirs
<1>6. Dirs(c)[k].inode # RootInum
  <2>1. OneEntry(disk)
    BY DEF Walkable, SoundImage
  <2>. QED BY <1>1, <1>2, <2>1 DEF OneEntry, Dirs
<1>. QED BY <1>2, <1>5, <1>6

LEMMA FirstHit ==
  ASSUME NEW c, NEW n, Hits(c, n) # {}
  PROVE  /\ Min(Hits(c, n)) \in Slots
         /\ Dirs(c)[Min(Hits(c, n))].valid
         /\ Dirs(c)[Min(Hits(c, n))].name = n
<1>1. Hits(c, n) \subseteq Nat
  BY SizesAssumption DEF Hits, Slots
<1>2. Min(Hits(c, n)) \in Hits(c, n)
  BY <1>1, MinIn
<1>. QED BY <1>2 DEF Hits

(***************************************************************************)
(* One turn of path2inum from a directory c that is linked.                *)
(***************************************************************************)
Missing == {-ENOENT, -ENOTDIR}

LEMMA WalkTurn ==
  ASSUME Walkable, NEW p \in Paths, NEW j \in 1 .. Len(p),
         NEW c \in Linked(disk), S_ISDIR(c)
  PROVE  LET k == Min(Hits(c, p[j]))
             i == Dirs(c)[k].inode
         IN  \/ /\ walk(p, j, c) \in Missing
                /\ p[j] \in LongNames \/ Hits(c, p[j]) = {} \/ j < Len(p)
             \/ /\ p[j] \notin LongNames
                /\ Hits(c, p[j]) # {}
                /\ walk(p, j, c) = i
                /\ i \in Linked(disk)
                /\ j < Len(p) => S_ISDIR(i)
<1> DEFINE k == Min(Hits(c, p[j]))
           i == Dirs(c)[k].inode
<1>1. c \in Nat /\ ~(c < 0)
  BY LinkedNode
<1>2. disk[c].size # 0
  BY DirNode
<1>3. CASE p[j] \in LongNames \/ Hits(c, p[j]) = {}
  BY <1>1, <1>2, <1>3 DEF walk, Missing
<1>4. CASE p[j] \notin LongNames /\ Hits(c, p[j]) # {}
  <2>1. walk(p, j, c) = IF j < Len(p) /\ ~S_ISDIR(i) THEN -ENOTDIR ELSE i
    BY <1>1, <1>2, <1>4 DEF walk
  <2>2. k \in Slots /\ Dirs(c)[k].valid
    BY <1>4, FirstHit
  <2>3. i \in Linked(disk)
    BY <2>2, EntryLinked
  <2>4. CASE j < Len(p) /\ ~S_ISDIR(i)
    BY <2>1, <2>4 DEF Missing
  <2>5. CASE ~(j < Len(p) /\ ~S_ISDIR(i))
    BY <1>4, <2>1, <2>3, <2>5
  <2>. QED BY <2>4, <2>5
<1>. QED BY <1>3, <1>4

(***************************************************************************)
(* Every inode number that path2inum visits is linked, and all but the     *)
(* last belong to directories.                                             *)
(***************************************************************************)
Seen(p, j, c) ==
  c \in Missing \/ (c \in Linked(disk) /\ (j < Len(p) => S_ISDIR(c)))

LEMMA RootIsDir ==
  ASSUME Walkable
  PROVE  RootInum \in Linked(disk) /\ S_ISDIR(RootInum)
BY LinkedTypes DEF Walkable, SoundImage, Reserved, S_ISDIR

LEMMA WalkError ==
  ASSUME NEW p, NEW j, NEW c \in Missing
  PROVE  walk(p, j, c) = c
BY DEF walk, Missing, ENOENT, ENOTDIR

LEMMA SeenAll ==
  ASSUME Walkable, NEW p \in Paths
  PROVE  \A j \in 0 .. Len(p) : Seen(p, j, visited(p)[j])
<1> DEFINE T == {j \in Nat : j <= Len(p) => Seen(p, j, visited(p)[j])}
<1>1. Len(p) \in Nat
  BY PathTypes
<1>2. 0 \in T
  <2>1. visited(p)[0] = RootInum
    BY <1>1, Visited
  <2>. QED BY <2>1, RootIsDir DEF Seen
<1>3. ASSUME NEW j \in Nat, j \in T PROVE j + 1 \in T
  <2> SUFFICES ASSUME j + 1 <= Len(p)
               PROVE  Seen(p, j + 1, visited(p)[j + 1])
    OBVIOUS
  <2> DEFINE c == visited(p)[j]
  <2>1. Seen(p, j, c) /\ j < Len(p) /\ j + 1 \in 1 .. Len(p) /\ (j + 1) - 1 = j
    BY <1>1, <1>3
  <2>2. visited(p)[j + 1] = walk(p, j + 1, c)
    BY <1>1, <2>1, Visited
  <2> HIDE DEF c
  <2>3. CASE c \in Missing
    BY <2>2, <2>3, WalkError DEF Seen
  <2>4. CASE c \in Linked(disk) /\ S_ISDIR(c)
    <3>1. \/ walk(p, j + 1, c) \in Missing
          \/ /\ walk(p, j + 1, c) \in Linked(disk)
             /\ j + 1 < Len(p) => S_ISDIR(walk(p, j + 1, c))
      BY <2>1, <2>4, WalkTurn
    <3>. QED BY <2>2, <3>1 DEF Seen
  <2>. QED BY <2>1, <2>3, <2>4 DEF Seen
<1>4. Nat \subseteq T
  <2> HIDE DEF T
  <2>. QED BY <1>2, <1>3, SetInduction
<1>. QED BY <1>1, <1>4

LEMMA PathResult ==
  ASSUME Walkable, NEW p \in Paths
  PROVE  path2inum(p) \in Missing \/ path2inum(p) \in Linked(disk)
<1>1. Len(p) \in Nat
  BY PathTypes
<1>2. path2inum(p) = visited(p)[Len(p)]
  BY <1>1, Visited
<1>3. Seen(p, Len(p), visited(p)[Len(p)])
  BY <1>1, SeenAll
<1>. QED BY <1>2, <1>3 DEF Seen

LEMMA ExistsLinked ==
  ASSUME Walkable, NEW p \in Paths
  PROVE  /\ Exists(p) <=> path2inum(p) \in Linked(disk)
         /\ path2inum(p) < 0 <=> path2inum(p) \in Missing
         /\ Exists(p) <=> path2inum(p) \notin Missing
<1>1. CASE path2inum(p) \in Missing
  <2>1. path2inum(p) < 0 /\ ~(path2inum(p) > 0)
    BY <1>1 DEF Missing, ENOENT, ENOTDIR
  <2>2. path2inum(p) \notin Linked(disk)
    BY <2>1, LinkedNode
  <2>. QED BY <1>1, <2>1, <2>2 DEF Exists
<1>2. CASE path2inum(p) \in Linked(disk)
  <2>1. path2inum(p) \in Nat /\ path2inum(p) > 0
    BY <1>2, LinkedNode
  <2>2. path2inum(p) \notin Missing
    BY <2>1 DEF Missing, ENOENT, ENOTDIR
  <2>. QED BY <1>2, <2>1, <2>2 DEF Exists
<1>. QED BY <1>1, <1>2, PathResult

(***************************************************************************)
(* A path and the path of its parent.                                      *)
(***************************************************************************)
LEMMA SamePrefix ==
  ASSUME NEW p \in Paths, p # <<>>,
         NEW j \in 1 .. Len(p) - 2, NEW c
  PROVE  walk(p, j, c) = walk(Front(p), j, c)
<1>1. /\ Len(p) \in Nat \ {0} /\ Len(Front(p)) = Len(p) - 1
      /\ Front(p)[j] = p[j]
  BY FrontTypes
<1>2. j < Len(p) /\ j < Len(Front(p)) /\ j # Len(p) /\ j # Len(Front(p))
  BY <1>1
<1>. QED BY <1>1, <1>2 DEF walk

LEMMA VisitedPrefix ==
  ASSUME NEW p \in Paths, p # <<>>
  PROVE  \A j \in 0 .. Len(p) - 2 : visited(p)[j] = visited(Front(p))[j]
<1> DEFINE q == Front(p)
           T == {j \in Nat : j <= Len(p) - 2 => visited(p)[j] = visited(q)[j]}
<1>1. Len(p) \in Nat \ {0} /\ Len(q) = Len(p) - 1 /\ Len(q) \in Nat
  BY FrontTypes
<1>2. 0 \in T
  <2>1. visited(p)[0] = RootInum /\ visited(q)[0] = RootInum
    BY <1>1, Visited
  <2>. QED BY <2>1
<1>3. ASSUME NEW j \in Nat, j \in T PROVE j + 1 \in T
  <2> SUFFICES ASSUME j + 1 <= Len(p) - 2
               PROVE  visited(p)[j + 1] = visited(q)[j + 1]
    OBVIOUS
  <2>1. /\ j + 1 \in 1 .. Len(p) - 2 /\ j + 1 \in 1 .. Len(p)
        /\ j + 1 \in 1 .. Len(q) /\ (j + 1) - 1 = j
    BY <1>1
  <2>2. visited(p)[j + 1] = walk(p, j + 1, visited(p)[j])
    BY <1>1, <2>1, Visited
  <2>3. visited(q)[j + 1] = walk(q, j + 1, visited(q)[j])
    BY <1>1, <2>1, Visited
  <2>4. visited(p)[j] = visited(q)[j]
    BY <1>1, <1>3, <2>1
  <2>. QED BY <2>1, <2>2, <2>3, <2>4, SamePrefix
<1>4. Nat \subseteq T
  <2> HIDE DEF T
  <2>. QED BY <1>2, <1>3, SetInduction
<1>. QED BY <1>1, <1>4

\* The last turn but one, in path p and as the last turn of Front(p).
LEMMA LastButOne ==
  ASSUME Walkable, NEW p \in Paths, Len(p) >= 2, Len(p) \in Nat,
         NEW c, Seen(p, Len(p) - 2, c)
  PROVE  LET n == Len(p) - 1
             x == walk(p, n, c)
             y == walk(Front(p), n, c)
         IN  \/ x = y /\ y \in Linked(disk) /\ S_ISDIR(y)
             \/ x \in Missing /\ y \in Missing
             \/ x \in Missing /\ y \in Linked(disk) /\ ~S_ISDIR(y)
<1> DEFINE n == Len(p) - 1
           q == Front(p)
<1>1. p # <<>>
  BY EmptySeq
<1>2. q \in Paths /\ Len(q) = n /\ q[n] = p[n] /\ n \in 1 .. Len(q) /\ n \in 1 .. Len(p)
  BY <1>1, FrontTypes
<1>3. n < Len(p) /\ ~(n < Len(q))
  BY <1>2
<1>4. CASE c \in Missing
  BY <1>4, WalkError
<1>5. CASE c \in Linked(disk) /\ S_ISDIR(c)
  <2> DEFINE k == Min(Hits(c, p[n]))
             i == Dirs(c)[k].inode
  <2>1. c \in Nat /\ ~(c < 0)
    BY <1>5, LinkedNode
  <2>2. disk[c].size # 0
    BY <1>5, DirNode
  <2>3. CASE p[n] \in LongNames \/ Hits(c, p[n]) = {}
    <3>1. walk(p, n, c) \in Missing
      BY <2>1, <2>2, <2>3 DEF walk, Missing
    <3>2. walk(q, n, c) \in Missing
      BY <1>2, <2>1, <2>2, <2>3 DEF walk, Missing
    <3>. QED BY <3>1, <3>2
  <2>4. CASE p[n] \notin LongNames /\ Hits(c, p[n]) # {}
    <3>1. k \in Slots /\ Dirs(c)[k].valid
      BY <2>4, FirstHit
    <3>2. i \in Linked(disk)
      BY <1>5, <3>1, EntryLinked
    <3>3. walk(p, n, c) = IF ~S_ISDIR(i) THEN -ENOTDIR ELSE i
      BY <1>3, <2>1, <2>2, <2>4 DEF walk
    <3>4. walk(q, n, c) = i
      BY <1>2, <1>3, <2>1, <2>2, <2>4 DEF walk
    <3>. QED BY <3>2, <3>3, <3>4 DEF Missing
  <2>. QED BY <2>3, <2>4
<1>. QED BY <1>3, <1>4, <1>5 DEF Seen

\* path2inum of a path is one more turn from its parent, when the parent is a
\* directory, and fails when it is not.
LEMMA Parent ==
  ASSUME Walkable, NEW p \in Paths, p # <<>>
  PROVE  LET par == path2inum(Front(p))
         IN  \/ /\ par \in Linked(disk) /\ S_ISDIR(par)
                /\ path2inum(p) = walk(p, Len(p), par)
             \/ par \in Missing /\ path2inum(p) \in Missing
             \/ par \in Linked(disk) /\ ~S_ISDIR(par) /\ path2inum(p) \in Missing
<1> DEFINE n == Len(p)
           q == Front(p)
           x == visited(p)[n - 1]
<1>1. n \in Nat \ {0} /\ Len(q) = n - 1 /\ q \in Paths /\ Len(q) \in Nat
  BY FrontTypes
<1>2. path2inum(p) = walk(p, n, x)
  <2>1. n \in 1 .. n
    BY <1>1
  <2>. QED BY <1>1, <2>1, Visited
<1>3. path2inum(q) = visited(q)[n - 1]
  BY <1>1, Visited
<1>4. CASE n = 1
  <2>1. x = RootInum /\ path2inum(q) = RootInum
    BY <1>1, <1>3, <1>4, Visited
  <2>. QED BY <1>2, <2>1, RootIsDir
<1>5. CASE n >= 2
  <2> DEFINE c == visited(p)[n - 2]
  <2>1. /\ n - 1 \in 1 .. Len(p) /\ n - 1 \in 1 .. Len(q)
        /\ (n - 1) - 1 = n - 2 /\ n - 2 \in 0 .. Len(p) - 2 /\ n - 2 \in 0 .. Len(p)
    BY <1>1, <1>5
  <2>2. c = visited(q)[n - 2]
    BY <2>1, VisitedPrefix
  <2>3. x = walk(p, n - 1, c)
    BY <1>1, <2>1, Visited
  <2>4. path2inum(q) = walk(q, n - 1, c)
    BY <1>1, <1>3, <2>1, <2>2, Visited
  <2>5. Seen(p, n - 2, c)
    BY <2>1, SeenAll
  <2> HIDE DEF c
  <2>6. \/ /\ walk(p, n - 1, c) = walk(q, n - 1, c)
           /\ walk(q, n - 1, c) \in Linked(disk) /\ S_ISDIR(walk(q, n - 1, c))
        \/ walk(p, n - 1, c) \in Missing /\ walk(q, n - 1, c) \in Missing
        \/ /\ walk(p, n - 1, c) \in Missing
           /\ walk(q, n - 1, c) \in Linked(disk) /\ ~S_ISDIR(walk(q, n - 1, c))
    BY <1>1, <1>5, <2>5, LastButOne
  <2>7. x \in Missing => path2inum(p) \in Missing
    BY <1>2, WalkError
  <2> HIDE DEF x
  <2>. QED BY ONLY <1>2, <2>3, <2>4, <2>6, <2>7
<1>. QED BY <1>1, <1>4, <1>5

\* A path other than the root that exists: its parent is a directory, and its
\* inode is that of the first entry there with its last name.
LEMMA Found ==
  ASSUME Walkable, NEW p \in Paths, p # <<>>, path2inum(p) \in Linked(disk)
  PROVE  LET par == path2inum(Front(p))
             k   == Min(Hits(par, Last(p)))
         IN  /\ par \in Linked(disk) /\ S_ISDIR(par)
             /\ Hits(par, Last(p)) # {}
             /\ k \in Slots
             /\ Dirs(par)[k].valid
             /\ Dirs(par)[k].name = Last(p)
             /\ Dirs(par)[k].inode = path2inum(p)
             /\ Last(p) \notin LongNames
<1> DEFINE par == path2inum(Front(p))
           n   == Len(p)
<1>1. path2inum(p) \notin Missing
  BY ExistsLinked
<1>2. par \in Linked(disk) /\ S_ISDIR(par) /\ path2inum(p) = walk(p, n, par)
  BY <1>1, Parent
<1>3. n \in 1 .. Len(p) /\ Last(p) = p[n] /\ ~(n < Len(p))
  BY FrontTypes
<1> HIDE DEF par
<1>4. /\ Last(p) \notin LongNames
      /\ Hits(par, Last(p)) # {}
      /\ walk(p, n, par) = Dirs(par)[Min(Hits(par, Last(p)))].inode
  BY <1>1, <1>2, <1>3, WalkTurn
<1>5. LET k == Min(Hits(par, Last(p)))
      IN  k \in Slots /\ Dirs(par)[k].valid /\ Dirs(par)[k].name = Last(p)
  BY <1>4, FirstHit
<1>6. LET k == Min(Hits(par, Last(p)))
      IN  /\ par \in Linked(disk) /\ S_ISDIR(par)
          /\ Hits(par, Last(p)) # {}
          /\ k \in Slots
          /\ Dirs(par)[k].valid
          /\ Dirs(par)[k].name = Last(p)
          /\ Dirs(par)[k].inode = path2inum(p)
          /\ Last(p) \notin LongNames
  BY <1>2, <1>4, <1>5
<1>. QED BY <1>6 DEF par

\* A short name that is missing from a directory has no entry there.
LEMMA NotFound ==
  ASSUME Walkable, NEW p \in Paths, p # <<>>, path2inum(p) \in Missing,
         path2inum(Front(p)) \in Linked(disk), S_ISDIR(path2inum(Front(p))),
         Last(p) \notin LongNames
  PROVE  Hits(path2inum(Front(p)), Last(p)) = {}
<1> DEFINE par == path2inum(Front(p))
           n   == Len(p)
<1>1. par \notin Missing
  BY FrontTypes, ExistsLinked
<1>2. path2inum(p) = walk(p, n, par)
  BY <1>1, Parent
<1>3. n \in 1 .. Len(p) /\ Last(p) = p[n] /\ ~(n < Len(p))
  BY FrontTypes
<1>4. par \in Linked(disk) /\ S_ISDIR(par)
  OBVIOUS
<1> HIDE DEF par
<1>5. path2inum(p) \notin Linked(disk)
  BY ExistsLinked
<1>6. Hits(par, Last(p)) = {}
  BY <1>2, <1>3, <1>4, <1>5, WalkTurn
<1>. QED BY <1>6 DEF par

(***************************************************************************)
(* In a sound image whatever is linked is marked.                          *)
(***************************************************************************)
LEMMA LinkedInode ==
  ASSUME Sound, NEW i \in Linked(disk)
  PROVE  /\ i \in Blk /\ i \in Nat /\ i > 0
         /\ disk[i] \in Inode /\ disk[i].kind = "inode"
         /\ i \in map
<1>1. InodeSound(map, disk, i)
  BY SoundOwned DEF Sound
<1>. QED BY <1>1, SoundWalkable, LinkedNode DEF InodeSound

LEMMA DirOf ==
  ASSUME Sound, NEW c \in Linked(disk), S_ISDIR(c)
  PROVE  /\ DirBlkOf(c) \in map /\ DirBlkOf(c) \in Blk
         /\ disk[DirBlkOf(c)].kind = "dir"
         /\ disk[DirBlkOf(c)] \in DirBlock
         /\ Dirs(c) \in [Slots -> Dirent]
         /\ disk[c].size # 0
<1>1. InodeSound(map, disk, c)
  BY SoundOwned DEF Sound
<1>2. UsedPtrs(disk[c]) = {0}
  BY DEF S_ISDIR, UsedPtrs
<1>3. DirBlkOf(c) \in map
  BY <1>1, <1>2 DEF InodeSound, DirBlkOf
<1>. QED BY <1>3, SoundWalkable, DirNode

\* What holds of walkable images is used of sound ones from here on.
USE SoundWalkable

-----------------------------------------------------------------------------
(***************************************************************************)
(* The inductive invariant.  TypeOK alone is not inductive: that fs_chmod  *)
(* leaves a well-formed inode, say, needs that path2inum led to one.       *)
(***************************************************************************)
IInv == TypeOK /\ Sound

Results == {-e : e \in Errnos} \cup Nat

\* A step leaks no block, or meets a limit.
Tidy == NoLeak => NoLeak' \/ AtLimit

\* The ways a handler ends keep the invariant, if the image it leaves behind
\* is sound, and leak nothing, if what it leaves marked is in use.
LEMMA Ends ==
  ASSUME IInv, NEW m, NEW d, SoundImage(m, d), NEW r \in Results,
         Return(m, d, r) \/ Abort(m, d),
         NoLeak => m \subseteq InUse(d) \/ AtLimit
  PROVE  IInv' /\ Tidy
<1>1. map' = m /\ disk' = d
  BY DEF Return, Abort
<1>2. Sound'
  BY <1>1 DEF Sound
<1>3. m \subseteq Blk /\ d \in [Blk -> Content]
  BY DEF SoundImage
<1>4. ret' \in Results /\ up' \in {"down", "mounted"}
  BY DEF Return, Abort, IInv, TypeOK, Results
<1>5. Tidy
  BY <1>1, UseMarked DEF Tidy, NoLeak
<1>. QED BY <1>1, <1>2, <1>3, <1>4, <1>5 DEF IInv, TypeOK, Results

LEMMA Fails ==
  ASSUME IInv, NEW r \in Results, Fail(r)
  PROVE  IInv' /\ Tidy
<1>1. map' = map /\ disk' = disk /\ up' = up /\ ret' = r
  BY DEF Fail
<1>2. Sound'
  BY <1>1 DEF IInv, Sound
<1>3. TypeOK'
  BY <1>1 DEF IInv, TypeOK, Results
<1>4. Tidy
  BY <1>1 DEF Tidy, NoLeak
<1>. QED BY <1>2, <1>3, <1>4 DEF IInv

\* The errors a handler returns are among those of Errnos.
LEMMA ErrnoTypes ==
  ASSUME NEW p
  PROVE  /\ path_errno(p) \in Results
         /\ file_errno(p) \in Results
         /\ create_errno(p) \in Results
         /\ parent_errno(p) \in Results
         /\ unlink_errno(p) \in Results
         /\ rmdir_errno(p) \in Results
         /\ \A q : rename_errno(p, q) \in Results
         /\ -EINVAL \in Results /\ -ENOENT \in Results /\ -ENOSPC \in Results
<1>1. /\ 0 \in Results /\ -ENOENT \in Results /\ -EEXIST \in Results
      /\ -ENOTDIR \in Results /\ -EISDIR \in Results /\ -EINVAL \in Results
      /\ -ENOSPC \in Results /\ -ENOTEMPTY \in Results
  BY DEF Results, Errnos
<1>2. path_errno(p) \in Results
  BY <1>1 DEF path_errno
<1>3. file_errno(p) \in Results
  BY <1>1, <1>2 DEF file_errno
<1>4. create_errno(p) \in Results
  BY <1>1 DEF create_errno
<1>5. parent_errno(p) \in Results
  BY <1>1 DEF parent_errno
<1>6. unlink_errno(p) \in Results
  BY <1>1, <1>5 DEF unlink_errno
<1>7. rmdir_errno(p) \in Results
  BY <1>1, <1>5 DEF rmdir_errno
<1>8. \A q : rename_errno(p, q) \in Results
  BY <1>1 DEF rename_errno
<1>. QED BY <1>1, <1>2, <1>3, <1>4, <1>5, <1>6, <1>7, <1>8

LEMMA AllocResult ==
  ASSUME NEW m
  PROVE  \/ alloc_blk(m) = -ENOSPC /\ alloc_blk(m) < 0 /\ FreeBits(m) = {}
         \/ /\ alloc_blk(m) \in FreeBits(m)
            /\ alloc_blk(m) \in Blk /\ alloc_blk(m) > 2
            /\ alloc_blk(m) \notin m
<1>1. FreeBits(m) \subseteq Nat
  BY LayoutAssumption DEF FreeBits
<1>2. CASE FreeBits(m) = {}
  BY <1>2 DEF alloc_blk, ENOSPC
<1>3. CASE FreeBits(m) # {}
  <2>1. alloc_blk(m) = Min(FreeBits(m))
    BY <1>3 DEF alloc_blk
  <2>2. alloc_blk(m) \in FreeBits(m)
    BY <1>1, <1>3, <2>1, MinIn
  <2>. QED BY <2>2, LayoutAssumption DEF FreeBits, Blk
<1>. QED BY <1>2, <1>3

(***************************************************************************)
(* fs_create and fs_mkdir.                                                 *)
(***************************************************************************)
LEMMA CreateAllowed ==
  ASSUME Walkable, NEW p \in Paths, create_errno(p) = 0
  PROVE  /\ p # <<>>
         /\ path2inum(p) \in Missing
         /\ Last(p) \in AllNames \ LongNames
         /\ path2inum(Front(p)) \in Linked(disk)
         /\ S_ISDIR(path2inum(Front(p)))
<1>1. ~Exists(p) /\ Last(p) \notin LongNames /\ ~(path2inum(Front(p)) < 0)
      /\ S_ISDIR(path2inum(Front(p)))
  BY DEF create_errno, EEXIST, EINVAL, ENOENT, ENOTDIR
<1>2. path2inum(p) \in Missing
  BY <1>1, ExistsLinked
<1>3. p # <<>>
  <2>1. Len(<<>>) \in Nat /\ Len(<<>>) = 0
    OBVIOUS
  <2>2. path2inum(<<>>) = RootInum
    BY <2>1, Visited
  <2>3. RootInum \notin Missing
    BY DEF RootInum, Missing, ENOENT, ENOTDIR
  <2>. QED BY <1>2, <2>2, <2>3
<1>4. Front(p) \in Paths /\ Last(p) \in AllNames
  BY <1>3, FrontTypes
<1>5. path2inum(Front(p)) \in Linked(disk)
  BY <1>1, <1>4, ExistsLinked, PathResult
<1>. QED BY <1>1, <1>2, <1>3, <1>4, <1>5

LEMMA FirstFree ==
  ASSUME NEW ents, FreeSlots(ents) # {}
  PROVE  Min(FreeSlots(ents)) \in Slots /\ ~ents[Min(FreeSlots(ents))].valid
<1>1. FreeSlots(ents) \subseteq Nat
  BY SizesAssumption DEF FreeSlots, Slots
<1>2. Min(FreeSlots(ents)) \in FreeSlots(ents)
  BY <1>1, MinIn
<1>. QED BY <1>2 DEF FreeSlots

\* What add_entry does: it gives up in a full directory, or fills a slot.
LEMMA AddShape ==
  ASSUME Sound, NEW p \in Paths, create_errno(p) = 0,
         NEW m, NEW d \in [Blk -> Content], NEW i \in Blk,
         \A c \in map : d[c] = disk[c],
         add_entry(p, i, m, d)
  PROVE  LET par == path2inum(Front(p))
             b   == DirBlkOf(par)
         IN  /\ par \in Linked(disk) /\ S_ISDIR(par)
             /\ b \in map /\ b \in Blk /\ d[b] = disk[b] /\ d[b].kind = "dir"
             /\ \/ FreeSlots(Dirs(par)) = {} /\ Return(m, d, -EINVAL)
                \/ \E k \in Slots : \E e :
                     /\ EntsChanged(d, e, b) /\ Filled(d, e, b, k, i)
                     /\ e[b].ents[k].name = Last(p)
                     /\ Return(m, e, 0)
<1> DEFINE par == path2inum(Front(p))
           b   == DirBlkOf(par)
<1>1. par \in Linked(disk) /\ S_ISDIR(par) /\ Last(p) \in AllNames
  BY CreateAllowed
<1>2. b \in map /\ b \in Blk /\ disk[b].kind = "dir"
  BY <1>1, DirOf
<1>3. d[b] = disk[b] /\ Dirs(par) = d[b].ents
  BY <1>2 DEF Dirs
<1> HIDE DEF b
<1>4. CASE FreeSlots(d[b].ents) = {}
  <2>1. Return(m, d, -EINVAL)
    BY <1>4 DEF add_entry, b
  <2>. QED BY <1>1, <1>2, <1>3, <1>4, <2>1 DEF b
<1>5. CASE FreeSlots(d[b].ents) # {}
  <2> DEFINE k == Min(FreeSlots(d[b].ents))
             x == Entry(i, Last(p))
             e == [d EXCEPT ![b].ents[k] = x]
  <2>1. k \in Slots /\ ~d[b].ents[k].valid
    BY <1>5, FirstFree
  <2>2. Return(m, e, 0)
    BY <1>5 DEF add_entry, b
  <2>3. x \in Dirent /\ x.valid /\ x.inode = i /\ x.name = Last(p)
    BY <1>1 DEF Entry, Dirent
  <2>4. d[b].kind = "dir"
    BY <1>2, <1>3
  <2> HIDE DEF k, x
  <2>5. SlotSet(d, e, b, k, x)
    BY DEF SlotSet
  <2> HIDE DEF e
  <2>6. /\ EntsChanged(d, e, b) /\ e[b].ents[k] = x
        /\ \A l \in Slots : l # k => e[b].ents[l] = d[b].ents[l]
    BY <1>2, <2>1, <2>3, <2>4, <2>5, NewEnt
  <2>7. Filled(d, e, b, k, i) /\ e[b].ents[k].name = Last(p)
    BY <2>1, <2>3, <2>6 DEF Filled
  <2>. QED BY <1>1, <1>2, <1>3, <2>1, <2>2, <2>4, <2>6, <2>7 DEF b
<1>. QED BY <1>4, <1>5

\* Inode i of d and its blocks are new: they were free, and no entry leads to
\* them yet.  A file has no bytes.
NewlyMade(m, d, i) ==
  /\ m = map \cup Owned(d, i) /\ m # map /\ FreshIn(map, disk, d, Owned(d, i))
  /\ SoundImage(m, d) /\ Loose(m, d, i)
  /\ d[i].type = "file" => d[i].size = 0

\* A new file: its inode is the only block it has.
LEMMA NewFile ==
  ASSUME Sound, NEW i \in Blk, i \notin map, NEW in \in Inode,
         in.type = "file", in.size = 0
  PROVE  LET m == map \cup {i}
             d == [disk EXCEPT ![i] = in]
         IN  NewlyMade(m, d, i)
<1> DEFINE m == map \cup {i}
           d == [disk EXCEPT ![i] = in]
<1>1. map \subseteq Blk /\ disk \in [Blk -> Content]
  BY DEF Sound, SoundImage
<1>2. d \in [Blk -> Content] /\ d[i] = in /\ \A c \in Blk \ {i} : d[c] = disk[c]
  BY <1>1 DEF Content
<1>3. \A c \in map : d[c] = disk[c]
  BY <1>1, <1>2
<1>4. in.kind = "inode" /\ UsedPtrs(in) = {}
  <2>1. nblocks(in) = 0
    BY NoBlocks
  <2>. QED BY <2>1 DEF UsedPtrs, Inode
<1> HIDE DEF d
<1>5. \A c \in {i}, k \in Slots : ~IsEntry(d, c, k)
  BY <1>2, <1>4 DEF IsEntry
<1>6. SoundImage(m, d) /\ Linked(d) = Linked(disk) /\ FreshIn(map, disk, d, {i})
  <2> DEFINE S == {i}
  <2>1. FreshIn(map, disk, d, S)
    BY <1>2, <1>5 DEF FreshIn
  <2> HIDE DEF S
  <2>2. SoundImage(map \cup S, d) /\ Linked(d) = Linked(disk)
    BY <2>1, Fresh DEF Sound
  <2>. QED BY <2>1, <2>2 DEF S
<1>7. InodeSound(m, d, i) /\ Owned(d, i) = {i}
  BY <1>2, <1>4 DEF InodeSound, Owned
<1>8. i \notin Linked(d)
  BY <1>6, LinkedInode
<1>9. ASSUME NEW j \in Linked(d) PROVE Owned(d, i) \cap Owned(d, j) = {}
  <2>1. j \in Linked(disk) /\ j \in map
    BY <1>6, LinkedInode
  <2>2. d[j] = disk[j]
    BY <1>3, <2>1
  <2>3. Owned(d, j) = Owned(disk, j)
    BY <2>2 DEF Owned
  <2>4. Owned(disk, j) \subseteq map
    BY <2>1, SoundOwned DEF Sound
  <2>. QED BY <1>7, <2>3, <2>4
<1>10. Loose(m, d, i)
  BY <1>2, <1>4, <1>7, <1>8, <1>9 DEF Loose
<1>. QED BY <1>2, <1>6, <1>7, <1>10 DEF NewlyMade, d

\* A new directory: an inode and a block of empty entries.
DirWritten(m, d, i, b, in) ==
  m = map \cup {i, b} /\ d = [disk EXCEPT ![b] = EmptyDir, ![i] = in]

LEMMA NewDir ==
  ASSUME Sound, NEW i \in Blk, i \notin map, NEW b \in Blk, b \notin map, b # i,
         NEW in \in Inode, in.type = "dir", in.size # 0, in.ptrs[0] = b,
         NEW m, NEW d, DirWritten(m, d, i, b, in)
  PROVE  NewlyMade(m, d, i)
<1>1. map \subseteq Blk /\ disk \in [Blk -> Content]
  BY DEF Sound, SoundImage
<1>0. m = map \cup {i, b}
  BY DEF DirWritten
<1>2. EmptyDir \in Content /\ EmptyDir.kind = "dir" /\ \A k \in Slots : ~EmptyDir.ents[k].valid
  BY DEF EmptyDir, Content, DirBlock, EmptySlot, Dirent
<1>3. /\ d \in [Blk -> Content] /\ d[i] = in /\ d[b] = EmptyDir
      /\ \A c \in Blk \ {i, b} : d[c] = disk[c]
  <2>1. in \in Content
    BY DEF Content
  <2>. QED BY <1>1, <1>2, <2>1 DEF DirWritten
<1>4. \A c \in map : d[c] = disk[c]
  BY <1>1, <1>3
<1>5. in.kind = "inode" /\ UsedPtrs(in) = {0}
  BY DEF UsedPtrs, Inode
<1>6. \A c \in {i, b}, k \in Slots : ~IsEntry(d, c, k)
  BY <1>2, <1>3, <1>5 DEF IsEntry
<1>8. SoundImage(m, d) /\ Linked(d) = Linked(disk) /\ FreshIn(map, disk, d, {i, b})
  <2> DEFINE S == {i, b}
  <2>1. FreshIn(map, disk, d, S)
    BY <1>3, <1>6 DEF FreshIn
  <2> HIDE DEF S
  <2>2. SoundImage(map \cup S, d) /\ Linked(d) = Linked(disk)
    BY <2>1, Fresh DEF Sound
  <2>. QED BY <1>0, <2>1, <2>2 DEF S
<1>9. InodeSound(m, d, i) /\ Owned(d, i) = {i, b}
  BY <1>0, <1>2, <1>3, <1>5 DEF InodeSound, Owned
<1>10. i \notin Linked(d)
  BY <1>8, LinkedInode
<1>11. ASSUME NEW j \in Linked(d) PROVE Owned(d, i) \cap Owned(d, j) = {}
  <2>1. j \in Linked(disk) /\ j \in map
    BY <1>8, LinkedInode
  <2>2. d[j] = disk[j]
    BY <1>4, <2>1
  <2>3. Owned(d, j) = Owned(disk, j)
    BY <2>2 DEF Owned
  <2>4. Owned(disk, j) \subseteq map
    BY <2>1, SoundOwned DEF Sound
  <2>. QED BY <1>9, <2>3, <2>4
<1>12. Loose(m, d, i)
  BY <1>3, <1>5, <1>9, <1>10, <1>11 DEF Loose
<1>. QED BY <1>0, <1>3, <1>8, <1>9, <1>12 DEF NewlyMade

LEMMA NewInodeTypes ==
  ASSUME NEW type \in FileTypes, NEW perm \in Perms, NEW now \in Times,
         NEW size \in 0 .. MaxFile, NEW ptr0 \in Blk \cup {NoPtr}
  PROVE  LET in == NewInode(type, perm, now, size, ptr0)
         IN  /\ in \in Inode /\ in.type = type /\ in.size = size
             /\ in.ptrs[0] = ptr0
BY SizesAssumption DEF NewInode, Inode, PtrIdx

LEMMA Sizes == 0 \in 0 .. MaxFile /\ BlockSize \in 0 .. MaxFile /\ BlockSize # 0
BY SizesAssumption DEF MaxFile

\* What create or mkdir has made is entered as p.
Made(p) == \E i, m, d : NewlyMade(m, d, i) /\ add_entry(p, i, m, d)

LEMMA MadeKeeps ==
  ASSUME IInv, NEW p \in Paths, create_errno(p) = 0, Made(p)
  PROVE  IInv' /\ Tidy
<1> DEFINE par == path2inum(Front(p))
           b   == DirBlkOf(par)
<1>0. PICK i, m, d : NewlyMade(m, d, i) /\ add_entry(p, i, m, d)
  BY DEF Made
<1>1. /\ m = map \cup Owned(d, i) /\ m # map /\ FreshIn(map, disk, d, Owned(d, i))
      /\ SoundImage(m, d) /\ Loose(m, d, i)
  BY <1>0 DEF NewlyMade
<1>2. /\ Sound /\ i \in Blk /\ d \in [Blk -> Content]
      /\ 0 \in Results /\ -EINVAL \in Results
  BY <1>1, ErrnoTypes DEF IInv, Loose, SoundImage, Results
<1>3. \A c \in map : d[c] = disk[c]
  BY <1>1, <1>2 DEF FreshIn, Sound, SoundImage
<1>4. /\ par \in Linked(disk) /\ S_ISDIR(par) /\ b \in m
      /\ \/ FreeSlots(Dirs(par)) = {} /\ Return(m, d, -EINVAL)
         \/ \E k \in Slots : \E e :
              EntsChanged(d, e, b) /\ Filled(d, e, b, k, i) /\ Return(m, e, 0)
  BY <1>0, <1>1, <1>2, <1>3, AddShape
<1> HIDE DEF par, b
<1>5. CASE FreeSlots(Dirs(par)) = {} /\ Return(m, d, -EINVAL)
  <2>1. OutOfSlots
    BY <1>1, <1>4, <1>5 DEF OutOfSlots, Return
  <2>. QED BY <1>1, <1>2, <1>5, <2>1, Ends DEF AtLimit
<1>6. ASSUME NEW k \in Slots, NEW e, EntsChanged(d, e, b), Filled(d, e, b, k, i),
             Return(m, e, 0)
      PROVE  IInv' /\ Tidy
  <2>1. SoundImage(m, e)
    BY <1>1, <1>4, <1>6, Attach
  <2>2. NoLeak => m \subseteq InUse(e)
    <3>1. InUse(d) \cup Owned(d, i) \subseteq InUse(e)
      BY <1>1, <1>4, <1>6, AttachUse
    <3>2. InUse(disk) \subseteq InUse(d)
      BY <1>1, <1>2, FreshUse DEF Sound
    <3>. QED BY <1>1, <3>1, <3>2 DEF NoLeak
  <2>. QED BY <1>2, <1>6, <2>1, <2>2, Ends
<1>. QED BY <1>4, <1>5, <1>6

LEMMA CreateShape ==
  ASSUME Sound, NEW p \in Paths, NEW perm \in Perms, NEW now \in Times,
         fs_create(p, perm, now)
  PROVE  \/ Fail(create_errno(p))
         \/ Abort(map, disk)
         \/ create_errno(p) = 0 /\ Made(p)
<1>1. map \subseteq Blk
  BY DEF Sound, SoundImage
<1>2. CASE Fail(create_errno(p)) \/ Abort(map, disk)
  BY <1>2
<1>3. CASE create_errno(p) = 0 /\ alloc_blk(map) > 0
           /\ add_entry(p, alloc_blk(map), map \cup {alloc_blk(map)},
                [disk EXCEPT ![alloc_blk(map)] = NewInode("file", perm, now, 0, NoPtr)])
  <2> DEFINE i  == alloc_blk(map)
             in == NewInode("file", perm, now, 0, NoPtr)
             m  == map \cup {i}
             d  == [disk EXCEPT ![i] = in]
  <2>1. i \in Blk /\ i \notin map
    BY <1>1, <1>3, AllocResult DEF ENOSPC
  <2>2. in \in Inode /\ in.type = "file" /\ in.size = 0
    BY NewInodeTypes, Sizes DEF FileTypes
  <2>3. add_entry(p, i, m, d)
    BY <1>3
  <2> HIDE DEF i, in
  <2>4. NewlyMade(m, d, i)
    BY <2>1, <2>2, NewFile
  <2> HIDE DEF m, d
  <2>5. Made(p)
    BY <2>3, <2>4 DEF Made
  <2>. QED BY <1>3, <2>5
<1>. QED BY <1>2, <1>3 DEF fs_create, bit_set

LEMMA CreateKeeps ==
  ASSUME IInv, NEW p \in Paths, NEW perm \in Perms, NEW now \in Times,
         fs_create(p, perm, now)
  PROVE  IInv' /\ Tidy
<1>1. Sound
  BY DEF IInv
<1>2. CASE Fail(create_errno(p))
  BY <1>2, ErrnoTypes, Fails
<1>3. CASE Abort(map, disk)
  <2>1. SoundImage(map, disk) /\ 0 \in Results /\ (NoLeak => map \subseteq InUse(disk))
    BY <1>1 DEF Sound, Results, NoLeak
  <2>. QED BY <1>3, <2>1, Ends
<1>. QED BY <1>1, <1>2, <1>3, CreateShape, MadeKeeps

LEMMA MkdirShape ==
  ASSUME Sound, NEW p \in Paths, NEW perm \in Perms, NEW now \in Times,
         fs_mkdir(p, perm, now)
  PROVE  \/ Fail(create_errno(p))
         \/ /\ up = "mounted"
            /\ \E m : SoundImage(m, disk) /\ FreeBits(m) = {} /\ Abort(m, disk)
         \/ create_errno(p) = 0 /\ Made(p)
<1> DEFINE i  == alloc_blk(map)
           m1 == IF i > 0 THEN bit_set(map, {i}) ELSE map
           b  == alloc_blk(m1)
           in == NewInode("dir", perm, now, BlockSize, b)
<1>1. Sound /\ map \subseteq Blk
  BY DEF Sound, SoundImage
<1>2. \/ i < 0 /\ m1 = map /\ b < 0
      \/ i \in Blk /\ i \notin map /\ i > 0 /\ m1 = map \cup {i}
  <2>1. CASE i = -ENOSPC
    <3>1. ~(i > 0) /\ i < 0
      BY <2>1 DEF ENOSPC
    <3>2. m1 = map
      BY <3>1
    <3>. QED BY <3>1, <3>2
  <2>2. CASE i \in Blk /\ i > 2 /\ i \notin map
    <3>1. i > 0
      BY <2>2, LayoutAssumption DEF Blk
    <3>2. m1 = map \cup {i}
      BY <3>1 DEF bit_set
    <3>. QED BY <2>2, <3>1, <3>2
  <2>. QED BY <1>1, <2>1, <2>2, AllocResult
<1>3. m1 \subseteq Blk
  BY <1>1, <1>2
<1>4. CASE Fail(create_errno(p))
  BY <1>4
<1>5. CASE up = "mounted" /\ b < 0 /\ Abort(m1, disk)
  <2>1. SoundImage(m1, disk)
    <3>1. CASE m1 = map
      BY <1>1, <3>1 DEF Sound
    <3>2. CASE i \in Blk /\ i \notin map /\ m1 = map \cup {i}
      <4>1. \A k \in Slots : ~IsEntry(disk, i, k)
        BY <1>1, <3>2 DEF Sound, SoundImage, EntriesMarked
      <4>2. disk \in [Blk -> Content] /\ {i} \in SUBSET Blk /\ {i} \cap map = {}
        BY <1>1, <3>2 DEF Sound, SoundImage
      <4> HIDE DEF i, m1
      <4>3. FreshIn(map, disk, disk, {i})
        BY <4>1, <4>2 DEF FreshIn
      <4>4. SoundImage(map \cup {i}, disk)
        BY <1>1, <4>3, Fresh DEF Sound
      <4>. QED BY <3>2, <4>4
    <3>. QED BY <1>2, <3>1, <3>2
  <2>2. FreeBits(m1) = {}
    <3> HIDE DEF m1
    <3>1. b < 0 /\ ~(b > 2 /\ b \in Blk)
      BY <1>5, LayoutAssumption DEF Blk
    <3>. QED BY <1>3, <3>1, AllocResult
  <2> HIDE DEF m1
  <2>. QED BY <1>5, <2>1, <2>2
<1>6. CASE create_errno(p) = 0 /\ b > 0
           /\ add_entry(p, i, m1 \cup {b}, [disk EXCEPT ![b] = EmptyDir, ![i] = in])
  <2> DEFINE m == map \cup {i, b}
             d == [disk EXCEPT ![b] = EmptyDir, ![i] = in]
  <2>1. b \in Blk /\ b \notin m1
    <3> HIDE DEF m1
    <3>1. b # -ENOSPC
      BY <1>6 DEF ENOSPC
    <3>. QED BY <1>3, <3>1, AllocResult
  <2>2. i \in Blk /\ i \notin map /\ m1 = map \cup {i}
    <3>1. ~(b < 0)
      BY <2>1, LayoutAssumption DEF Blk
    <3>. QED BY <1>2, <3>1
  <2>3. b \notin map /\ b # i /\ m1 \cup {b} = m
    BY <2>1, <2>2
  <2>4. in \in Inode /\ in.type = "dir" /\ in.size # 0 /\ in.ptrs[0] = b
    BY <2>1, NewInodeTypes, Sizes DEF FileTypes
  <2>5. add_entry(p, i, m, d)
    BY <1>6, <2>2, <2>3
  <2>6. DirWritten(m, d, i, b, in)
    BY DEF DirWritten
  <2> HIDE DEF i, m1, b, in, m, d
  <2>7. NewlyMade(m, d, i)
    BY <1>1, <2>1, <2>2, <2>3, <2>4, <2>6, NewDir
  <2>8. Made(p)
    BY <2>5, <2>7 DEF Made
  <2>. QED BY <1>6, <2>8
<1>. QED BY <1>4, <1>5, <1>6 DEF fs_mkdir, bit_set

LEMMA MkdirKeeps ==
  ASSUME IInv, NEW p \in Paths, NEW perm \in Perms, NEW now \in Times,
         fs_mkdir(p, perm, now)
  PROVE  IInv' /\ Tidy
<1>1. Sound /\ 0 \in Results
  BY DEF IInv, Results
<1>2. CASE Fail(create_errno(p))
  BY <1>2, ErrnoTypes, Fails
<1>3. ASSUME up = "mounted", NEW m, SoundImage(m, disk), FreeBits(m) = {},
             Abort(m, disk)
      PROVE  IInv' /\ Tidy
  <2>1. OutOfBlocks
    BY <1>3 DEF OutOfBlocks, Abort
  <2>. QED BY <1>1, <1>3, <2>1, Ends DEF AtLimit
<1>. QED BY <1>1, <1>2, <1>3, MkdirShape, MadeKeeps

(***************************************************************************)
(* fs_chmod, fs_utime and fs_truncate.                                     *)
(***************************************************************************)
\* Inode i of d keeps its type, size and pointers in inode in.
SameShape(d, i, in) ==
  in \in Inode /\ in.type = d[i].type /\ in.size = d[i].size /\ in.ptrs = d[i].ptrs

LEMMA SetPerm ==
  ASSUME NEW d, NEW i, d[i] \in Inode, NEW perm \in Perms
  PROVE  SameShape(d, i, [d[i] EXCEPT !.perm = perm])
BY DEF SameShape, Inode

LEMMA SetMtime ==
  ASSUME NEW d, NEW i, d[i] \in Inode, NEW t \in Times
  PROVE  SameShape(d, i, [d[i] EXCEPT !.mtime = t])
BY DEF SameShape, Inode

LEMMA ChmodKeeps ==
  ASSUME IInv, NEW p \in Paths, NEW perm \in Perms, fs_chmod(p, perm)
  PROVE  IInv' /\ Tidy
<1> DEFINE i  == path2inum(p)
           in == [disk[i] EXCEPT !.perm = perm]
<1>1. Sound /\ 0 \in Results /\ -ENOENT \in Results
  BY ErrnoTypes DEF IInv, Results
<1>2. CASE Fail(-ENOENT)
  BY <1>1, <1>2, Fails
<1>3. CASE Exists(p) /\ Return(map, [disk EXCEPT ![i].perm = perm], 0)
  <2>1. i \in Linked(disk)
    BY <1>1, <1>3, ExistsLinked
  <2>2. SameShape(disk, i, in)
    BY <1>1, <2>1, LinkedInode, SetPerm
  <2>3. Return(map, [disk EXCEPT ![i] = in], 0)
    BY <1>3
  <2> HIDE DEF i, in
  <2>4. SoundImage(map, [disk EXCEPT ![i] = in])
    BY <1>1, <2>1, <2>2, Touch DEF Sound, SameShape
  <2>5. InUse(disk) \subseteq InUse([disk EXCEPT ![i] = in])
    BY <1>1, <2>1, <2>2, TouchUse DEF Sound, SameShape
  <2>. QED BY <1>1, <2>3, <2>4, <2>5, Ends DEF NoLeak
<1>. QED BY <1>2, <1>3 DEF fs_chmod

LEMMA FileFound ==
  ASSUME Walkable, NEW p \in Paths, file_errno(p) = 0
  PROVE  /\ path2inum(p) \in Linked(disk)
         /\ disk[path2inum(p)].type = "file"
<1>1. Exists(p) /\ ~S_ISDIR(path2inum(p))
  BY DEF file_errno, path_errno, ENOTDIR, ENOENT, EISDIR
<1>2. path2inum(p) \in Linked(disk)
  BY <1>1, ExistsLinked
<1>3. disk[path2inum(p)] \in Inode
  BY <1>2, LinkedNode
<1>. QED BY <1>1, <1>2, <1>3 DEF Inode, FileTypes, S_ISDIR

LEMMA UtimeKeeps ==
  ASSUME IInv, NEW p \in Paths, NEW t \in Times, fs_utime(p, t)
  PROVE  IInv' /\ Tidy
<1> DEFINE i  == path2inum(p)
           in == [disk[i] EXCEPT !.mtime = t]
<1>1. Sound /\ 0 \in Results
  BY DEF IInv, Results
<1>2. CASE Fail(file_errno(p))
  BY <1>2, ErrnoTypes, Fails
<1>3. CASE file_errno(p) = 0 /\ Return(map, [disk EXCEPT ![i].mtime = t], 0)
  <2>1. i \in Linked(disk)
    BY <1>1, <1>3, FileFound
  <2>2. SameShape(disk, i, in)
    BY <1>1, <2>1, LinkedInode, SetMtime
  <2>3. Return(map, [disk EXCEPT ![i] = in], 0)
    BY <1>3
  <2> HIDE DEF i, in
  <2>4. SoundImage(map, [disk EXCEPT ![i] = in])
    BY <1>1, <2>1, <2>2, Touch DEF Sound, SameShape
  <2>5. InUse(disk) \subseteq InUse([disk EXCEPT ![i] = in])
    BY <1>1, <2>1, <2>2, TouchUse DEF Sound, SameShape
  <2>. QED BY <1>1, <2>3, <2>4, <2>5, Ends DEF NoLeak
<1>. QED BY <1>2, <1>3 DEF fs_utime

LEMMA FileBlocksUsed ==
  ASSUME NEW i, disk[i].type = "file"
  PROVE  FileBlocks(i) = {disk[i].ptrs[q] : q \in UsedPtrs(disk[i])}
BY DEF FileBlocks, UsedPtrs

LEMMA TruncateKeeps ==
  ASSUME IInv, NEW p \in Paths, NEW len, fs_truncate(p, len)
  PROVE  IInv' /\ Tidy
<1> DEFINE i  == path2inum(p)
           in == [disk[i] EXCEPT !.size = 0]
           m  == map \ FileBlocks(i)
           d  == [disk EXCEPT ![i] = in]
<1>1. Sound /\ 0 \in Results /\ -EINVAL \in Results
  BY ErrnoTypes DEF IInv, Results
<1>2. CASE Fail(-EINVAL) \/ Fail(file_errno(p))
  BY <1>1, <1>2, ErrnoTypes, Fails
<1>3. CASE file_errno(p) = 0 /\ Return(m, [disk EXCEPT ![i].size = 0], 0)
  <2>1. i \in Linked(disk) /\ disk[i].type = "file"
    BY <1>1, <1>3, FileFound
  <2>2. in \in Inode /\ in.type = "file" /\ in.size = 0
    BY <1>1, <2>1, LinkedInode, Sizes DEF Inode
  <2>3. Return(m, d, 0)
    BY <1>3
  <2> HIDE DEF i, in
  <2>4. SoundImage(m, d)
    BY <1>1, <2>1, <2>2, Cut, FileBlocksUsed DEF Sound
  <2>5. InUse(disk) \ FileBlocks(i) \subseteq InUse(d)
    <3>1. in.kind = "inode"
      BY <2>2 DEF Inode
    <3>. QED BY <1>1, <2>1, <3>1, CutUse, FileBlocksUsed DEF Sound
  <2>6. NoLeak => m \subseteq InUse(d)
    BY <2>5 DEF NoLeak
  <2> HIDE DEF m, d
  <2>. QED BY <1>1, <2>3, <2>4, <2>6, Ends
<1>. QED BY <1>2, <1>3 DEF fs_truncate, free_blk, bit_clear

(***************************************************************************)
(* fs_rename.                                                              *)
(***************************************************************************)
LEMMA RenameAllowed ==
  ASSUME Walkable, NEW src \in Paths, NEW dst \in Paths, rename_errno(src, dst) = 0
  PROVE  /\ src # <<>> /\ dst # <<>>
         /\ path2inum(src) \in Linked(disk)
         /\ path2inum(dst) \in Missing
         /\ Front(src) = Front(dst)
<1>1. ~(path2inum(src) < 0) /\ ~Exists(dst) /\ Len(src) = Len(dst) /\ Front(src) = Front(dst)
  BY DEF rename_errno, EINVAL, ENOENT, EEXIST
<1>2. path2inum(src) \in Linked(disk) /\ path2inum(dst) \in Missing
  BY <1>1, ExistsLinked, PathResult
<1>3. dst # <<>>
  <2>1. Len(<<>>) \in Nat /\ Len(<<>>) = 0
    OBVIOUS
  <2>2. path2inum(<<>>) = RootInum
    BY <2>1, Visited
  <2>3. RootInum \notin Missing
    BY DEF RootInum, Missing, ENOENT, ENOTDIR
  <2>. QED BY <1>2, <2>2, <2>3
<1>4. src # <<>>
  <2>1. Len(dst) # 0
    BY <1>3, FrontTypes
  <2>. QED BY <1>1, <2>1
<1>. QED BY <1>1, <1>2, <1>3, <1>4

LEMMA SetNameTypes ==
  ASSUME NEW ents \in [Slots -> Dirent], NEW k \in Slots, ents[k].valid,
         NEW n \in AllNames
  PROVE  /\ SetName(ents, k, n) \in [Slots -> Dirent]
         /\ \A s \in Slots : SetName(ents, k, n)[s].valid =>
              /\ ents[s].valid /\ SetName(ents, k, n)[s].inode = ents[s].inode
              /\ s # k => SetName(ents, k, n)[s] = ents[s]
         /\ SetName(ents, k, n)[k].valid /\ SetName(ents, k, n)[k].name = n
         /\ \A s \in Slots : ents[s].valid /\ ~SetName(ents, k, n)[s].valid =>
              s = k + 1 /\ n \in LongNames
<1>1. ents[k].inode \in Blk
  BY DirentTypes
<1>2. Entry(ents[k].inode, n) \in Dirent /\ Entry(ents[k].inode, n).inode = ents[k].inode
  BY <1>1 DEF Entry, Dirent
<1>3. EmptySlot \in Dirent /\ ~EmptySlot.valid
  BY DEF EmptySlot, Dirent
<1>4. ASSUME NEW s \in Slots
      PROVE  \/ s = k /\ SetName(ents, k, n)[s] = Entry(ents[k].inode, n)
             \/ /\ s # k /\ SetName(ents, k, n)[s] = EmptySlot
                /\ s = k + 1 /\ n \in LongNames
             \/ s # k /\ SetName(ents, k, n)[s] = ents[s]
  <2>1. k # k + 1
    BY SizesAssumption DEF Slots
  <2>2. CASE s = k
    BY <2>1, <2>2 DEF SetName
  <2>3. CASE s = k + 1 /\ n \in LongNames
    BY <2>1, <2>3 DEF SetName
  <2>4. CASE s # k /\ ~(s = k + 1 /\ n \in LongNames)
    BY <2>4 DEF SetName
  <2>. QED BY <2>2, <2>3, <2>4
<1>5. \A s \in Slots : SetName(ents, k, n)[s] \in Dirent
  BY <1>2, <1>3, <1>4
<1>6. SetName(ents, k, n) \in [Slots -> Dirent]
  <2>1. SetName(ents, k, n) = [s \in Slots |-> SetName(ents, k, n)[s]]
    BY DEF SetName
  <2>. QED BY <1>5, <2>1
<1>7. \A s \in Slots : SetName(ents, k, n)[s].valid =>
        /\ ents[s].valid /\ SetName(ents, k, n)[s].inode = ents[s].inode
        /\ s # k => SetName(ents, k, n)[s] = ents[s]
  BY <1>2, <1>3, <1>4
<1>8. SetName(ents, k, n)[k].valid /\ SetName(ents, k, n)[k].name = n
  BY <1>4 DEF Entry
<1>9. \A s \in Slots : ents[s].valid /\ ~SetName(ents, k, n)[s].valid =>
        s = k + 1 /\ n \in LongNames
  BY <1>4 DEF Entry
<1>. QED BY <1>6, <1>7, <1>8, <1>9

\* Slot k of block b has got the name n, whose NUL may have erased the next.
Renamed(d, e, b, k, n) ==
  /\ e[b].ents[k].valid /\ e[b].ents[k].name = n
  /\ \A s \in Slots : e[b].ents[s].valid =>
       /\ d[b].ents[s].valid /\ e[b].ents[s].inode = d[b].ents[s].inode
       /\ s # k => e[b].ents[s] = d[b].ents[s]
  /\ \A s \in Slots : d[b].ents[s].valid /\ ~e[b].ents[s].valid =>
       s = k + 1 /\ n \in LongNames

LEMMA RenameShape ==
  ASSUME Sound, NEW src \in Paths, NEW dst \in Paths, fs_rename(src, dst)
  PROVE  LET par == path2inum(Front(src))
             b   == DirBlkOf(par)
         IN  \/ Fail(rename_errno(src, dst))
             \/ /\ par \in Linked(disk) /\ S_ISDIR(par)
                /\ path2inum(Front(dst)) = par /\ dst # <<>> /\ path2inum(dst) \in Missing
                /\ \E k \in Slots : \E e :
                     /\ IsEntry(disk, b, k) /\ disk[b].ents[k].name \notin LongNames
                     /\ EntsChanged(disk, e, b) /\ Renamed(disk, e, b, k, Last(dst))
                     /\ Return(map, e, 0)
<1> DEFINE par  == path2inum(Front(src))
           b    == DirBlkOf(par)
           k    == Min(Hits(par, Last(src)))
           ents == SetName(Dirs(par), k, Last(dst))
           e    == [disk EXCEPT ![b].ents = ents]
<1>1. CASE rename_errno(src, dst) = 0 /\ Return(map, e, 0)
  <2>1. /\ src # <<>> /\ dst # <<>> /\ path2inum(src) \in Linked(disk)
        /\ path2inum(dst) \in Missing /\ Front(src) = Front(dst)
    BY <1>1, RenameAllowed
  <2>2. /\ par \in Linked(disk) /\ S_ISDIR(par) /\ k \in Slots
        /\ Dirs(par)[k].valid /\ Dirs(par)[k].name \notin LongNames
    BY <2>1, Found
  <2>3. /\ b \in Blk /\ disk[b].kind = "dir" /\ Dirs(par) \in [Slots -> Dirent]
        /\ disk \in [Blk -> Content] /\ Dirs(par) = disk[b].ents
    BY <2>2, DirOf DEF Sound, SoundImage, Dirs
  <2>4. Last(dst) \in AllNames
    BY <2>1, FrontTypes
  <2>5. /\ ents \in [Slots -> Dirent]
        /\ ents[k].valid /\ ents[k].name = Last(dst)
        /\ \A s \in Slots : ents[s].valid =>
             /\ disk[b].ents[s].valid /\ ents[s].inode = disk[b].ents[s].inode
             /\ s # k => ents[s] = disk[b].ents[s]
        /\ \A s \in Slots : disk[b].ents[s].valid /\ ~ents[s].valid =>
             s = k + 1 /\ Last(dst) \in LongNames
    BY <2>2, <2>3, <2>4, SetNameTypes
  <2>6. Return(map, e, 0)
    BY <1>1
  <2> HIDE DEF ents, b, k
  <2>7. EntsChanged(disk, e, b) /\ e[b].ents = ents
    BY <2>3, <2>5, NewEnts
  <2> HIDE DEF e
  <2>8. Renamed(disk, e, b, k, Last(dst))
    BY <2>5, <2>7 DEF Renamed
  <2>9. IsEntry(disk, b, k) /\ disk[b].ents[k].name \notin LongNames
    BY <2>2, <2>3 DEF IsEntry
  <2>. QED BY <2>1, <2>2, <2>6, <2>7, <2>8, <2>9 DEF b
<1>. QED BY <1>1 DEF fs_rename

LEMMA RenameKeeps ==
  ASSUME IInv, NEW src \in Paths, NEW dst \in Paths, fs_rename(src, dst)
  PROVE  IInv' /\ Tidy
<1> DEFINE b == DirBlkOf(path2inum(Front(src)))
<1>1. Sound /\ 0 \in Results
  BY DEF IInv, Results
<1>2. CASE Fail(rename_errno(src, dst))
  BY <1>2, ErrnoTypes, Fails
<1>3. ASSUME NEW k \in Slots, NEW e, EntsChanged(disk, e, b),
             Renamed(disk, e, b, k, Last(dst)), Return(map, e, 0)
      PROVE  IInv' /\ Tidy
  <2> HIDE DEF b
  <2>1. SoundImage(map, e)
    BY <1>1, <1>3, Relabel DEF Sound, Renamed
  <2>2. disk' = e
    BY <1>3 DEF Return
  <2>3. CASE \A s \in Slots : disk[b].ents[s].valid => e[b].ents[s].valid
    <3>1. InUse(disk) \ {} \subseteq InUse(e)
      BY <1>1, <1>3, <2>3, RelabelUse DEF Sound, Renamed
    <3>2. NoLeak => map \subseteq InUse(e)
      BY <3>1 DEF NoLeak
    <3>. QED BY <1>1, <1>3, <2>1, <3>2, Ends
  <2>4. ASSUME NEW s \in Slots, disk[b].ents[s].valid, ~e[b].ents[s].valid
        PROVE  NameTooLong
    <3>1. s = k + 1 /\ Last(dst) \in LongNames /\ b \in Blk
      BY <1>3, <2>4 DEF Renamed, EntsChanged
    <3>2. /\ IsEntry(disk, b, s) /\ ~IsEntry(e, b, s)
          /\ IsEntry(e, b, k) /\ e[b].ents[k].name = Last(dst)
      BY <1>3, <2>4 DEF Renamed, EntsChanged, IsEntry
    <3>. QED BY <2>2, <3>1, <3>2 DEF NameTooLong
  <2>. QED BY <1>1, <1>3, <2>1, <2>3, <2>4, Ends DEF AtLimit
<1>4. \/ Fail(rename_errno(src, dst))
      \/ \E k \in Slots : \E e :
           /\ EntsChanged(disk, e, b)
           /\ Renamed(disk, e, b, k, Last(dst)) /\ Return(map, e, 0)
  BY <1>1, RenameShape
<1>. QED BY <1>2, <1>3, <1>4

(***************************************************************************)
(* fs_unlink and fs_rmdir.                                                 *)
(***************************************************************************)
LEMMA RemoveAllowed ==
  ASSUME Walkable, NEW p \in Paths, p # <<>>, parent_errno(p) = 0
  PROVE  path2inum(p) \in Linked(disk)
<1>1. ~(path2inum(p) < 0)
  BY DEF parent_errno, ENOENT, ENOTDIR
<1>. QED BY <1>1, ExistsLinked, PathResult

\* The slot that remove empties holds the entry of p's inode.
LEMMA RemovedSlot ==
  ASSUME Walkable, NEW p \in Paths, p # <<>>, path2inum(p) \in Linked(disk)
  PROVE  LET par == path2inum(Front(p))
             K   == {k \in Slots : Dirs(par)[k].valid /\ Dirs(par)[k].inode = path2inum(p)}
         IN  /\ K # {}
             /\ Min(K) \in Slots
             /\ Dirs(par)[Min(K)].valid
             /\ Dirs(par)[Min(K)].inode = path2inum(p)
<1> DEFINE par == path2inum(Front(p))
           K   == {k \in Slots : Dirs(par)[k].valid /\ Dirs(par)[k].inode = path2inum(p)}
<1>1. K # {}
  BY Found
<1>2. K \subseteq Nat
  BY SizesAssumption DEF Slots
<1>3. Min(K) \in K
  BY <1>1, <1>2, MinIn
<1>. QED BY <1>1, <1>3

\* What remove does: the slot with the entry of p's inode is emptied, and the
\* parent gets another mtime.
LEMMA RemoveShape ==
  ASSUME Sound, NEW p \in Paths, p # <<>>, NEW now \in Times,
         path2inum(p) \in Linked(disk), NEW B, remove(p, B, now)
  PROVE  LET i   == path2inum(p)
             par == path2inum(Front(p))
             b   == DirBlkOf(par)
         IN  /\ par \in Linked(disk) /\ b \in Blk
             /\ \E k \in Slots : \E e, in :
                  /\ IsEntry(disk, b, k) /\ disk[b].ents[k].inode = i
                  /\ EntsChanged(disk, e, b) /\ Emptied(disk, e, b, k)
                  /\ SameShape(e, par, in)
                  /\ Return(map \ (B \cup {i}), [e EXCEPT ![par] = in], 0)
<1> DEFINE i   == path2inum(p)
           par == path2inum(Front(p))
           b   == DirBlkOf(par)
           K   == {k \in Slots : Dirs(par)[k].valid /\ Dirs(par)[k].inode = i}
           k   == Min(K)
           e   == [disk EXCEPT ![b].ents[k] = EmptySlot]
           in  == [e[par] EXCEPT !.mtime = now]
<1>1. par \in Linked(disk) /\ S_ISDIR(par)
  BY Found
<1>2. K # {} /\ k \in Slots /\ Dirs(par)[k].valid /\ Dirs(par)[k].inode = i
  BY RemovedSlot
<1>3. Return(map \ (B \cup {i}), [e EXCEPT ![par].mtime = now], 0)
  BY <1>2 DEF remove, free_blk, bit_clear
<1>4. Return(map \ (B \cup {i}), [e EXCEPT ![par] = in], 0)
  BY <1>3
<1>5. /\ b \in Blk /\ disk[b].kind = "dir" /\ disk \in [Blk -> Content]
      /\ Dirs(par) = disk[b].ents
  BY <1>1, DirOf DEF Sound, SoundImage, Dirs
<1>6. EmptySlot \in Dirent /\ ~EmptySlot.valid
  BY DEF EmptySlot, Dirent
<1>7. SlotSet(disk, e, b, k, EmptySlot)
  BY DEF SlotSet
<1> HIDE DEF K, k, b, e
<1>8. /\ EntsChanged(disk, e, b) /\ e[b].ents[k] = EmptySlot
      /\ \A l \in Slots : l # k => e[b].ents[l] = disk[b].ents[l]
  BY <1>2, <1>5, <1>6, <1>7, NewEnt
<1>9. Emptied(disk, e, b, k)
  BY <1>6, <1>8 DEF Emptied
<1>10. IsEntry(disk, b, k) /\ disk[b].ents[k].inode = i
  BY <1>2, <1>5 DEF IsEntry
<1>11. e[par] \in Inode
  <2> HIDE DEF par
  <2>1. par # b /\ par \in Blk /\ disk[par] \in Inode
    BY <1>1, <1>5, LinkedInode
  <2>2. e[par] = disk[par]
    BY <1>8, <2>1 DEF EntsChanged
  <2>. QED BY <2>1, <2>2
<1>12. SameShape(e, par, in)
  BY <1>11, SetMtime
<1> HIDE DEF in
<1>. QED BY <1>1, <1>2, <1>4, <1>5, <1>8, <1>9, <1>10, <1>12 DEF b

\* p, a file or an empty directory, is removed with all its blocks B.
RemovesAll(p, B) ==
  LET i == path2inum(p)
  IN  /\ i \in Linked(disk) /\ i # path2inum(Front(p))
      /\ Hollow(disk, i) /\ B \cup {i} = Owned(disk, i)

LEMMA RemoveKeeps ==
  ASSUME IInv, NEW p \in Paths, p # <<>>, NEW now \in Times,
         NEW B, RemovesAll(p, B), remove(p, B, now)
  PROVE  IInv' /\ Tidy
<1> DEFINE i   == path2inum(p)
           par == path2inum(Front(p))
           b   == DirBlkOf(par)
           m   == map \ (B \cup {i})
<1>0. /\ i \in Linked(disk) /\ i # par /\ Hollow(disk, i)
      /\ B \cup {i} = Owned(disk, i)
  BY DEF RemovesAll
<1>1. Sound /\ 0 \in Results
  BY DEF IInv, Results
<1>2. PICK k, e, in :
        /\ k \in Slots /\ IsEntry(disk, b, k) /\ disk[b].ents[k].inode = i
        /\ EntsChanged(disk, e, b) /\ Emptied(disk, e, b, k)
        /\ SameShape(e, par, in)
        /\ Return(m, [e EXCEPT ![par] = in], 0)
  BY <1>0, <1>1, RemoveShape
<1>3. par \in Linked(disk) /\ b \in Blk /\ par # i /\ Hollow(disk, i)
  BY <1>0, <1>1, RemoveShape
<1>4. m = map \ Owned(disk, i)
  BY <1>0
<1> HIDE DEF i, m, par, b
<1>5. SoundImage(m, e) /\ par \in Linked(e)
  <2>1. /\ k \in Slots /\ IsEntry(disk, b, k) /\ i = disk[b].ents[k].inode
        /\ EntsChanged(disk, e, b) /\ Emptied(disk, e, b, k) /\ SoundImage(map, disk)
    BY <1>1, <1>2 DEF Sound
  <2>2. /\ SoundImage(map \ Owned(disk, i), e)
        /\ \A j \in Linked(disk) : j # i => j \in Linked(e)
    <3>1. b \in Blk /\ Hollow(disk, i)
      BY <1>3
    <3>. QED BY ONLY <2>1, <3>1, Detach
  <2>. QED BY <1>3, <1>4, <2>2
<1>6. SoundImage(m, [e EXCEPT ![par] = in])
  BY <1>2, <1>5, Touch DEF SameShape
<1>7. InUse(disk) \ Owned(disk, i) \subseteq InUse(e)
  <2>1. \A l \in Slots : disk[b].ents[l].valid =>
          \/ e[b].ents[l].valid /\ e[b].ents[l].inode = disk[b].ents[l].inode
          \/ Owned(disk, disk[b].ents[l].inode) \subseteq Owned(disk, i)
    BY <1>2 DEF Emptied
  <2>. QED BY <1>1, <1>2, <2>1, RelabelUse DEF Sound
<1>8. InUse(e) \subseteq InUse([e EXCEPT ![par] = in])
  BY <1>2, <1>5, TouchUse DEF SameShape
<1>9. NoLeak => m \subseteq InUse([e EXCEPT ![par] = in])
  BY <1>4, <1>7, <1>8 DEF NoLeak
<1>. QED BY <1>1, <1>2, <1>6, <1>9, Ends

LEMMA UnlinkShape ==
  ASSUME Sound, NEW p \in Paths, p # <<>>, NEW now \in Times, fs_unlink(p, now)
  PROVE  \/ Fail(unlink_errno(p))
         \/ \E B : RemovesAll(p, B) /\ remove(p, B, now)
<1> DEFINE i == path2inum(p)
<1>1. Sound
  OBVIOUS
<1>2. CASE Fail(unlink_errno(p))
  BY <1>2
<1>3. CASE unlink_errno(p) = 0 /\ remove(p, FileBlocks(i), now)
  <2>1. parent_errno(p) = 0 /\ ~S_ISDIR(i)
    BY <1>3 DEF unlink_errno, EISDIR
  <2>2. i \in Linked(disk)
    BY <1>1, <2>1, RemoveAllowed
  <2>3. disk[i].type = "file"
    BY <1>1, <2>1, <2>2, LinkedInode DEF Inode, FileTypes, S_ISDIR
  <2>4. i # path2inum(Front(p))
    BY <1>1, <2>1, <2>2, Found
  <2>5. Hollow(disk, i)
    BY <2>3 DEF Hollow
  <2>6. FileBlocks(i) \cup {i} = Owned(disk, i)
    BY <2>3, FileBlocksUsed DEF Owned
  <2>. QED BY <1>3, <2>2, <2>4, <2>5, <2>6 DEF RemovesAll
<1>. QED BY <1>2, <1>3 DEF fs_unlink

LEMMA UnlinkKeeps ==
  ASSUME IInv, NEW p \in Paths, p # <<>>, NEW now \in Times, fs_unlink(p, now)
  PROVE  IInv' /\ Tidy
<1>1. CASE Fail(unlink_errno(p))
  BY <1>1, ErrnoTypes, Fails
<1>. QED BY <1>1, UnlinkShape, RemoveKeeps DEF IInv

LEMMA RmdirShape ==
  ASSUME Sound, NEW p \in Paths, p # <<>>, NEW now \in Times, fs_rmdir(p, now)
  PROVE  \/ Fail(rmdir_errno(p))
         \/ \E B : RemovesAll(p, B) /\ remove(p, B, now)
<1> DEFINE i == path2inum(p)
<1>1. Sound
  OBVIOUS
<1>2. CASE Fail(rmdir_errno(p))
  BY <1>2
<1>3. CASE rmdir_errno(p) = 0 /\ remove(p, {DirBlkOf(i)}, now)
  <2>1. parent_errno(p) = 0 /\ S_ISDIR(i) /\ FreeSlots(Dirs(i)) = Slots
    BY <1>3 DEF rmdir_errno, ENOTDIR, ENOTEMPTY
  <2>2. i \in Linked(disk)
    BY <1>1, <2>1, RemoveAllowed
  <2>3. \A k \in Slots : ~Dirs(i)[k].valid
    BY <2>1 DEF FreeSlots
  <2>4. Hollow(disk, i)
    BY <2>3 DEF Hollow, IsEntry, Dirs, DirBlkOf
  <2>5. i # path2inum(Front(p))
    BY <1>1, <2>2, <2>3, Found
  <2>6. {DirBlkOf(i)} \cup {i} = Owned(disk, i)
    BY <2>1 DEF Owned, UsedPtrs, S_ISDIR, DirBlkOf
  <2>. QED BY <1>3, <2>2, <2>4, <2>5, <2>6 DEF RemovesAll
<1>. QED BY <1>2, <1>3 DEF fs_rmdir

LEMMA RmdirKeeps ==
  ASSUME IInv, NEW p \in Paths, p # <<>>, NEW now \in Times, fs_rmdir(p, now)
  PROVE  IInv' /\ Tidy
<1>1. CASE Fail(rmdir_errno(p))
  BY <1>1, ErrnoTypes, Fails
<1>. QED BY <1>1, RmdirShape, RemoveKeeps DEF IInv

(***************************************************************************)
(* fs_write.                                                               *)
(***************************************************************************)
\* The pointers that a write needs and the old size does not are exactly the
\* ones that the new size adds: no pointer within a file's size is skipped.
NewSize(s, off, len) == IF off + len > s THEN off + len ELSE s
NewPtrs(s, off, len) ==
  {q \in Touched(off, len) : q >= DIV_ROUND_UP(s, BlockSize)}

LEMMA WritePtrs ==
  ASSUME NEW s \in Nat, NEW off \in Nat, NEW len \in Nat, off <= s
  PROVE  LET N == DIV_ROUND_UP(s, BlockSize)
             M == DIV_ROUND_UP(NewSize(s, off, len), BlockSize)
         IN  /\ 0 .. M - 1 = (0 .. N - 1) \cup NewPtrs(s, off, len)
             /\ NewPtrs(s, off, len) \cap (0 .. N - 1) = {}
             /\ Touched(off, len) \subseteq Nat
<1> DEFINE N   == DIV_ROUND_UP(s, BlockSize)
           t   == NewSize(s, off, len)
           M   == DIV_ROUND_UP(t, BlockSize)
           New == {q \in Touched(off, len) : q >= N}
           a   == off \div BlockSize
           z   == (off + len - 1) \div BlockSize
<1>0. t \in Nat /\ New = NewPtrs(s, off, len) /\ t = IF off + len > s THEN off + len ELSE s
  BY DEF NewSize, NewPtrs
<1> HIDE DEF t
<1>1. N \in Nat /\ s <= N * BlockSize /\ N * BlockSize < s + BlockSize
  BY SizesAssumption, RoundUp
<1>2. M \in Nat /\ t <= M * BlockSize /\ M * BlockSize < t + BlockSize
  BY <1>0, SizesAssumption, RoundUp
<1>3. CASE len = 0
  <2>1. Touched(off, len) = {} /\ t = s
    BY <1>0, <1>3 DEF Touched
  <2>. QED BY <1>0, <2>1 DEF t
<1>4. CASE len # 0
  <2>1. a \in Nat /\ a * BlockSize <= off
    BY SizesAssumption, DivFacts
  <2>2. /\ z \in Nat /\ z * BlockSize <= off + len - 1
        /\ off + len - 1 < z * BlockSize + BlockSize
    <3>1. off + len - 1 \in Nat
      BY <1>4
    <3>. QED BY <3>1, SizesAssumption, DivFacts
  <2>3. Touched(off, len) = a .. z
    BY <1>4 DEF Touched
  <2> HIDE DEF N, M, a, z
  <2>4. a <= N
    <3>1. a * BlockSize < N * BlockSize + BlockSize
      <4>1. a * BlockSize \in Int /\ N * BlockSize \in Int
        BY <1>1, <2>1, SizesAssumption
      <4>. QED BY <1>1, <2>1, <4>1, SizesAssumption
    <3>. QED BY <1>1, <2>1, <3>1, SizesAssumption, LeQuotient
  <2>5. /\ N * BlockSize \in Int /\ M * BlockSize \in Int /\ z * BlockSize \in Int
        /\ (z + 1) * BlockSize = z * BlockSize + BlockSize
    BY <1>1, <1>2, <2>2, SizesAssumption
  <2>6. CASE off + len > s
    <3>1. N * BlockSize < M * BlockSize + BlockSize
      BY <1>0, <1>1, <1>2, <2>5, <2>6, SizesAssumption
    <3>2. (z + 1) * BlockSize < M * BlockSize + BlockSize
      BY <1>2, <2>2, <2>5, <2>6, SizesAssumption, <1>0
    <3>3. M * BlockSize < (z + 1) * BlockSize + BlockSize
      BY <1>2, <2>2, <2>5, <2>6, SizesAssumption, <1>0
    <3>4. N <= M /\ z + 1 <= M /\ M <= z + 1
      BY <1>1, <1>2, <2>2, <3>1, <3>2, <3>3, SizesAssumption, LeQuotient
    <3>5. M = z + 1
      BY <1>2, <2>2, <3>4
    <3>6. New = N .. M - 1
      BY <1>1, <1>2, <2>1, <2>2, <2>3, <2>4, <3>5
    <3>7. 0 .. M - 1 = (0 .. N - 1) \cup New /\ New \cap (0 .. N - 1) = {}
      BY <1>1, <1>2, <3>4, <3>6
    <3>. QED BY <2>1, <2>3, <3>7, <1>0 DEF N, M, t
  <2>7. CASE ~(off + len > s)
    <3>1. t = s /\ M = N
      BY <1>0, <2>7 DEF M, N
    <3>2. (z + 1) * BlockSize < N * BlockSize + BlockSize
      BY <1>1, <2>2, <2>5, <2>7, SizesAssumption
    <3>3. z + 1 <= N
      BY <1>1, <2>2, <3>2, SizesAssumption, LeQuotient
    <3>4. New = {}
      BY <1>1, <2>1, <2>2, <2>3, <3>3
    <3>5. 0 .. M - 1 = (0 .. N - 1) \cup New /\ New \cap (0 .. N - 1) = {}
      BY <3>1, <3>4
    <3>. QED BY <2>1, <2>3, <3>5, <1>0 DEF N, M, t
  <2>. QED BY <2>6, <2>7
<1>. QED BY <1>3, <1>4

\* The calls of alloc_blk in the loop give different blocks.
LEMMA AllocEachFacts ==
  ASSUME map \subseteq Blk, NEW Q, Q \subseteq Nat, NEW g \in AllocEach(Q)
  PROVE  /\ \A q \in Q : g[q] \in Blk \ map
         /\ \A q, r \in Q : g[q] = g[r] => q = r
<1> DEFINE before(q) == bit_set(map, {g[r] : r \in {x \in Q : x < q}})
<1>1. \A q \in Q : g[q] \in FreeBits(map) /\ g[q] = alloc_blk(before(q))
  BY DEF AllocEach
<1>2. \A q \in Q : g[q] \in Blk \ map /\ g[q] > 2
  <2>1. \A x \in FreeBits(map) : x \in Blk \ map /\ x > 2
    BY LayoutAssumption DEF FreeBits, Blk
  <2> HIDE DEF before
  <2>. QED BY <1>1, <2>1
<1>3. ASSUME NEW q \in Q, NEW r \in Q, r < q PROVE g[q] # g[r]
  <2>1. before(q) \subseteq Blk /\ g[r] \in before(q)
    BY <1>2, <1>3 DEF bit_set
  <2> HIDE DEF before
  <2>2. alloc_blk(before(q)) # -ENOSPC
    BY <1>1, <1>2, LayoutAssumption DEF ENOSPC, Blk
  <2>3. g[q] \notin before(q)
    BY <1>1, <2>1, <2>2, AllocResult
  <2>. QED BY <2>1, <2>3
<1>4. \A q, r \in Q : q # r => q < r \/ r < q
  OBVIOUS
<1>5. \A q, r \in Q : g[q] = g[r] => q = r
  BY <1>3, <1>4
<1>. QED BY <1>2, <1>5

LEMMA WriteAllowed ==
  ASSUME Walkable, NEW p \in Paths, NEW off \in Nat, NEW len \in Nat,
         write_allowed(p, off, len)
  PROVE  LET i == path2inum(p)
         IN  /\ i \in Linked(disk) /\ disk[i].type = "file"
             /\ disk[i] \in Inode /\ disk[i].size \in Nat
             /\ off <= disk[i].size /\ off + len <= MaxFile
<1>1. file_errno(p) = 0 /\ off <= disk[path2inum(p)].size /\ off + len <= MaxFile
  BY DEF write_allowed
<1>2. path2inum(p) \in Linked(disk) /\ disk[path2inum(p)].type = "file"
  BY <1>1, FileFound
<1>3. disk[path2inum(p)] \in Inode
  BY <1>2, LinkedNode
<1>4. disk[path2inum(p)].size \in Nat
  BY <1>3 DEF Inode
<1>. QED BY <1>1, <1>2, <1>3, <1>4

\* The inode that a write leaves, when g gives the pointers New their blocks.
Grown(in, new, g, New, off, len) ==
  /\ new \in Inode /\ new.type = "file"
  /\ new.size = NewSize(in.size, off, len)
  /\ \A q \in PtrIdx : new.ptrs[q] = IF q \in New THEN g[q] ELSE in.ptrs[q]

WrittenInode(in, g, New, off, len, now) ==
  [in EXCEPT !.ptrs  = [q \in PtrIdx |-> IF q \in New THEN g[q] ELSE in.ptrs[q]],
             !.size  = IF off + len > @ THEN off + len ELSE @,
             !.mtime = now]

LEMMA GrownTypes ==
  ASSUME NEW in \in Inode, in.type = "file", NEW off \in Nat, NEW len \in Nat,
         off + len <= MaxFile, NEW now \in Times, NEW g, NEW New,
         \A q \in New : g[q] \in Blk
  PROVE  Grown(in, WrittenInode(in, g, New, off, len, now), g, New, off, len)
<1> DEFINE ptrs == [q \in PtrIdx |-> IF q \in New THEN g[q] ELSE in.ptrs[q]]
           size == IF off + len > in.size THEN off + len ELSE in.size
           new  == [in EXCEPT !.ptrs = ptrs, !.size = size, !.mtime = now]
<1>1. in.ptrs \in [PtrIdx -> Blk \cup {NoPtr}] /\ in.size \in 0 .. MaxFile
  BY DEF Inode
<1>2. ptrs \in [PtrIdx -> Blk \cup {NoPtr}]
  BY <1>1
<1>3. size \in 0 .. MaxFile
  BY <1>1, SizesAssumption DEF MaxFile
<1>4. \A q \in PtrIdx : ptrs[q] = IF q \in New THEN g[q] ELSE in.ptrs[q]
  OBVIOUS
<1>5. new.ptrs = ptrs /\ new.size = size /\ new.type = "file"
  BY DEF Inode
<1>6. new \in Inode
  <2> HIDE DEF ptrs, size
  <2>. QED BY <1>2, <1>3 DEF Inode
<1>7. Grown(in, new, g, New, off, len)
  <2> HIDE DEF new, ptrs
  <2>. QED BY <1>4, <1>5, <1>6 DEF Grown, NewSize
<1>. QED BY <1>7 DEF WrittenInode

\* The blocks g allocates, and the disk once they and inode i are written.
Targets(g, New) == {g[q] : q \in New}
WrittenDisk(i, new, off, len) ==
  LET B == {new.ptrs[q] : q \in Touched(off, len)}
  IN  [b \in Blk |-> IF b = i THEN new ELSE IF b \in B THEN Data ELSE disk[b]]

\* A write that finds its blocks extends the file by them.
LEMMA WriteExtends ==
  ASSUME Sound, NEW i \in Linked(disk), disk[i].type = "file",
         NEW off \in Nat, NEW len \in Nat, off <= disk[i].size,
         NEW New, New = NewPtrs(disk[i].size, off, len),
         NEW g \in AllocEach(New),
         NEW new, Grown(disk[i], new, g, New, off, len)
  PROVE  /\ SoundImage(map \cup Targets(g, New), WrittenDisk(i, new, off, len))
         /\ InUse(disk) \cup Targets(g, New) \subseteq
              InUse(WrittenDisk(i, new, off, len))
         /\ Targets(g, New) \in SUBSET Blk /\ Targets(g, New) \cap map = {}
         /\ Written(disk, WrittenDisk(i, new, off, len), i, new, Targets(g, New))
<1> DEFINE G == {g[q] : q \in New}
           B == {new.ptrs[q] : q \in Touched(off, len)}
           e == [b \in Blk |-> IF b = i THEN new ELSE IF b \in B THEN Data ELSE disk[b]]
           N == nblocks(disk[i])
           M == nblocks(new)
<1>1. /\ disk[i] \in Inode /\ i \in Blk /\ i \in map /\ disk[i].size \in Nat
      /\ map \subseteq Blk /\ disk \in [Blk -> Content]
  BY LinkedInode DEF Sound, SoundImage, Inode
<1>2. new \in Inode /\ new.type = "file" /\ new.kind = "inode"
  BY DEF Grown, Inode
<1>3. /\ 0 .. M - 1 = (0 .. N - 1) \cup New
      /\ New \cap (0 .. N - 1) = {}
      /\ Touched(off, len) \subseteq Nat
  <2>1. new.size = NewSize(disk[i].size, off, len)
    BY DEF Grown
  <2>. QED BY <1>1, <2>1, WritePtrs DEF nblocks
<1>4. M \in 0 .. NumPtrs /\ N \in 0 .. NumPtrs
  BY <1>1, <1>2, BlocksOfInode
<1>5. 0 .. M - 1 \subseteq PtrIdx
  BY <1>4, SizesAssumption DEF PtrIdx
<1>6. UsedPtrs(new) = 0 .. M - 1 /\ UsedPtrs(disk[i]) = 0 .. N - 1
  BY <1>2 DEF UsedPtrs
<1>7. New \subseteq Nat /\ New \subseteq PtrIdx
  BY <1>3, <1>5
<1>8. /\ \A q \in New : g[q] \in Blk \ map
      /\ \A q, r \in New : g[q] = g[r] => q = r
  BY <1>1, <1>7, AllocEachFacts
<1>9. /\ \A q \in New : new.ptrs[q] = g[q]
      /\ \A q \in UsedPtrs(disk[i]) : new.ptrs[q] = disk[i].ptrs[q]
  <2>1. \A q \in PtrIdx : new.ptrs[q] = IF q \in New THEN g[q] ELSE disk[i].ptrs[q]
    BY DEF Grown
  <2>. QED BY <1>3, <1>5, <1>6, <2>1
<1>10. MorePtrs(disk, i, new, New, G)
  BY <1>2, <1>3, <1>6, <1>8, <1>9 DEF MorePtrs
<1>11. \A q \in Touched(off, len) : q \in New \/ q \in UsedPtrs(disk[i])
  BY <1>3, <1>4, <1>6 DEF NewPtrs, nblocks
<1>12. \A b \in B : b \in G \/ disk[b] = Data
  <2>1. InodeSound(map, disk, i)
    BY SoundOwned DEF Sound
  <2>2. \A q \in UsedPtrs(disk[i]) : disk[disk[i].ptrs[q]] = Data
    <3>1. \A q \in UsedPtrs(disk[i]) :
            disk[i].ptrs[q] \in Blk /\ disk[disk[i].ptrs[q]].kind = "data"
      BY <1>1, <2>1 DEF InodeSound
    <3>. QED BY <1>1, <3>1, ContentKinds
  <2>. QED BY <1>9, <1>11, <2>2
<1>13. G \subseteq B
  BY <1>9 DEF NewPtrs
<1>14. Written(disk, e, i, new, G)
  <2>1. \A b \in G : b \in Blk /\ b # i
    BY <1>1, <1>8
  <2>2. new \in Content /\ Data \in Content
    BY <1>2 DEF Content
  <2> HIDE DEF G, B
  <2>3. e \in [Blk -> Content]
    BY <1>1, <2>2
  <2>4. e[i] = new
    BY <1>1
  <2>5. \A b \in G : e[b] = Data
    BY <1>13, <2>1
  <2>6. \A b \in Blk : b # i /\ b \notin G => e[b] = disk[b]
    BY <1>12
  <2> HIDE DEF e
  <2>. QED BY <2>3, <2>4, <2>5, <2>6 DEF Written
<1>15. G \in SUBSET Blk /\ G \cap map = {}
  BY <1>8
<1>17. G = {new.ptrs[q] : q \in New}
  BY <1>9
<1> HIDE DEF G, e
<1>16. SoundImage(map \cup G, e)
  BY <1>10, <1>14, <1>15, Extend DEF Sound
<1>18. InUse(disk) \cup G \subseteq InUse(e)
  BY <1>10, <1>14, <1>15, <1>17, ExtendUse DEF Sound
<1>. QED BY <1>14, <1>15, <1>16, <1>18 DEF G, e, Targets, WrittenDisk

\* The disk after a write that ran out of blocks.
FilledDisk == [b \in Blk |-> IF b \in FreeBits(map) THEN Data ELSE disk[b]]

\* A write that runs out of blocks has marked and written all that were free.
LEMMA WriteAborts ==
  ASSUME Sound
  PROVE  /\ FreshIn(map, disk, FilledDisk, FreeBits(map))
         /\ SoundImage(map \cup FreeBits(map), FilledDisk)
<1> DEFINE S == FreeBits(map)
           e == [b \in Blk |-> IF b \in S THEN Data ELSE disk[b]]
<1>1. S \subseteq Blk /\ S \cap map = {}
  BY LayoutAssumption DEF FreeBits, Blk
<1>2. e \in [Blk -> Content]
  BY DEF Sound, SoundImage, Content
<1> HIDE DEF S
<1>3. FreshIn(map, disk, e, S)
  BY <1>1, <1>2 DEF FreshIn, IsEntry, Data
<1> HIDE DEF e
<1>4. SoundImage(map \cup S, e)
  BY <1>3, Fresh DEF Sound
<1>. QED BY <1>3, <1>4 DEF S, e, FilledDisk

\* What fs_write does: it is refused, fills the disk and aborts, or gives the
\* file of p new pointers.
LEMMA WriteShape ==
  ASSUME Sound, NEW p \in Paths, NEW off \in Nat, NEW len \in Nat,
         NEW now \in Times, fs_write(p, off, len, now)
  PROVE  LET i   == path2inum(p)
             New == NewPtrs(disk[i].size, off, len)
         IN  \/ Fail(write_answer(p, off, len))
             \/ up = "mounted" /\ Abort(map \cup FreeBits(map), FilledDisk)
             \/ /\ i \in Linked(disk) /\ disk[i].type = "file" /\ off <= disk[i].size
                /\ \E g \in AllocEach(New) : \E new :
                     /\ Grown(disk[i], new, g, New, off, len)
                     /\ Return(map \cup Targets(g, New), WrittenDisk(i, new, off, len), len)
<1> DEFINE i   == path2inum(p)
           in  == disk[i]
           New == {q \in Touched(off, len) : q >= nblocks(in)}
<1>1. map \subseteq Blk
  BY DEF Sound, SoundImage
<1>2. CASE Fail(write_answer(p, off, len))
  BY <1>2
<1>3. CASE up = "mounted"
           /\ Abort(map \cup FreeBits(map),
                    [b \in Blk |-> IF b \in FreeBits(map) THEN Data ELSE disk[b]])
  BY <1>3 DEF FilledDisk
<1>4. ASSUME write_allowed(p, off, len), NEW g \in AllocEach(New),
             LET ptrs == [q \in PtrIdx |-> IF q \in New THEN g[q] ELSE in.ptrs[q]]
                 B    == {ptrs[q] : q \in Touched(off, len)}
                 node == [in EXCEPT !.ptrs  = ptrs,
                                    !.size  = IF off + len > @ THEN off + len ELSE @,
                                    !.mtime = now]
             IN  Return(map \cup {g[q] : q \in New},
                        [b \in Blk |-> IF b = i THEN node
                                       ELSE IF b \in B THEN Data ELSE disk[b]], len)
      PROVE  /\ i \in Linked(disk) /\ disk[i].type = "file" /\ off <= disk[i].size
             /\ New = NewPtrs(disk[i].size, off, len)
             /\ \E new : /\ Grown(in, new, g, New, off, len)
                         /\ Return(map \cup Targets(g, New),
                                   WrittenDisk(i, new, off, len), len)
  <2> DEFINE new == WrittenInode(in, g, New, off, len, now)
             P == [q \in PtrIdx |-> IF q \in New THEN g[q] ELSE in.ptrs[q]]
             D == {P[q] : q \in Touched(off, len)}
             G == {g[q] : q \in New}
             B == {new.ptrs[q] : q \in Touched(off, len)}
             e == [b \in Blk |-> IF b = i THEN new ELSE IF b \in B THEN Data ELSE disk[b]]
  <2>1. /\ i \in Linked(disk) /\ disk[i].type = "file" /\ disk[i] \in Inode
        /\ disk[i].size \in Nat /\ off <= disk[i].size /\ off + len <= MaxFile
    BY <1>4, WriteAllowed
  <2>2. New \subseteq Nat
    <3>1. disk[i].size \in Nat
      BY <2>1
    <3>2. Touched(off, len) \subseteq Nat
      BY <2>1, WritePtrs
    <3>. QED BY <3>2
  <2>3. \A q \in New : g[q] \in Blk
    <3> HIDE DEF New
    <3>. QED BY <1>1, <1>4, <2>2, AllocEachFacts
  <2>4. New = NewPtrs(disk[i].size, off, len)
    BY DEF NewPtrs, nblocks
  <2>5. B = D
    <3>1. new.ptrs = P
      BY <2>1 DEF Inode, WrittenInode
    <3>. QED BY <3>1
  <2>6. Return(map \cup G, e, len)
    <3>1. Return(map \cup G,
                 [b \in Blk |-> IF b = i THEN new ELSE IF b \in D THEN Data ELSE disk[b]],
                 len)
      BY <1>4 DEF WrittenInode
    <3>. QED BY <2>5, <3>1
  <2>7. Grown(disk[i], new, g, New, off, len)
    <3> HIDE DEF New
    <3>. QED BY <2>1, <2>3, GrownTypes
  <2>8. G = Targets(g, New) /\ e = WrittenDisk(i, new, off, len)
    BY DEF Targets, WrittenDisk
  <2> HIDE DEF New, new, i, G, e
  <2>. QED BY <2>1, <2>4, <2>6, <2>7, <2>8
<1>5. CASE write_allowed(p, off, len)
           /\ \E g \in AllocEach(New) :
                LET ptrs == [q \in PtrIdx |-> IF q \in New THEN g[q] ELSE in.ptrs[q]]
                    B    == {ptrs[q] : q \in Touched(off, len)}
                    node == [in EXCEPT !.ptrs  = ptrs,
                                       !.size  = IF off + len > @ THEN off + len ELSE @,
                                       !.mtime = now]
                IN  Return(map \cup {g[q] : q \in New},
                           [b \in Blk |-> IF b = i THEN node
                                          ELSE IF b \in B THEN Data ELSE disk[b]], len)
  <2>1. PICK g \in AllocEach(New) :
          /\ i \in Linked(disk) /\ disk[i].type = "file" /\ off <= disk[i].size
          /\ New = NewPtrs(disk[i].size, off, len)
          /\ \E new : /\ Grown(in, new, g, New, off, len)
                      /\ Return(map \cup Targets(g, New),
                                WrittenDisk(i, new, off, len), len)
    BY <1>4, <1>5
  <2> HIDE DEF New
  <2>. QED BY <2>1
<1>. QED BY <1>2, <1>3, <1>5 DEF fs_write, bit_set

LEMMA WriteKeeps ==
  ASSUME IInv, NEW p \in Paths, NEW off \in Nat, NEW len \in Nat,
         NEW now \in Times, fs_write(p, off, len, now)
  PROVE  IInv' /\ Tidy
<1> DEFINE i   == path2inum(p)
           New == NewPtrs(disk[i].size, off, len)
<1>1. Sound /\ 0 \in Results /\ len \in Results
  BY DEF IInv, Results
<1>2. CASE Fail(write_answer(p, off, len))
  <2>1. write_answer(p, off, len) \in Results
    BY <1>1, ErrnoTypes DEF write_answer
  <2>. QED BY <1>2, <2>1, Fails
<1>3. CASE up = "mounted" /\ Abort(map \cup FreeBits(map), FilledDisk)
  <2>1. SoundImage(map \cup FreeBits(map), FilledDisk)
    BY <1>1, WriteAborts
  <2>2. OutOfBlocks
    BY <1>3 DEF OutOfBlocks, Abort, FreeBits
  <2>. QED BY <1>1, <1>3, <2>1, <2>2, Ends DEF AtLimit
<1>4. ASSUME i \in Linked(disk), disk[i].type = "file", off <= disk[i].size,
             NEW g \in AllocEach(New), NEW new,
             Grown(disk[i], new, g, New, off, len),
             Return(map \cup Targets(g, New), WrittenDisk(i, new, off, len), len)
      PROVE  IInv' /\ Tidy
  <2> HIDE DEF i, New
  <2>1. /\ SoundImage(map \cup Targets(g, New), WrittenDisk(i, new, off, len))
        /\ InUse(disk) \cup Targets(g, New) \subseteq
             InUse(WrittenDisk(i, new, off, len))
    BY <1>1, <1>4, WriteExtends DEF New
  <2>2. NoLeak => map \cup Targets(g, New) \subseteq InUse(WrittenDisk(i, new, off, len))
    BY <2>1 DEF NoLeak
  <2>. QED BY <1>1, <1>4, <2>1, <2>2, Ends
<1>5. \/ Fail(write_answer(p, off, len))
      \/ up = "mounted" /\ Abort(map \cup FreeBits(map), FilledDisk)
      \/ /\ i \in Linked(disk) /\ disk[i].type = "file" /\ off <= disk[i].size
         /\ \E g \in AllocEach(New) : \E new :
              /\ Grown(disk[i], new, g, New, off, len)
              /\ Return(map \cup Targets(g, New), WrittenDisk(i, new, off, len), len)
  BY <1>1, WriteShape
<1> HIDE DEF i, New
<1>. QED BY <1>2, <1>3, <1>4, <1>5

-----------------------------------------------------------------------------
(***************************************************************************)
(* The theorems.                                                           *)
(***************************************************************************)
\* The image that gen-disk.py makes is sound: it has no entries, and the root
\* inode and its block are marked.
LEMMA InitHolds == Init => IInv
<1> SUFFICES ASSUME Init PROVE IInv
  OBVIOUS
<1>1. PICK perm \in Perms, t \in Times : disk = Image(perm, t)
  BY DEF Init
<1> DEFINE in == NewInode("dir", perm, t, BlockSize, RootDirBlk)
<1>2. /\ RootDirBlk \in Blk /\ RootDirBlk > 2 /\ {0, 1, 2} \subseteq Blk
      /\ RootInum = 2
  BY LayoutAssumption DEF Blk, RootInum
<1>3. in \in Inode /\ in.type = "dir" /\ in.size # 0 /\ in.ptrs[0] = RootDirBlk
  BY <1>2, NewInodeTypes, Sizes DEF FileTypes
<1>4. in.kind = "inode"
  BY <1>3 DEF Inode
<1>5. EmptyDir \in Content /\ EmptyDir.kind = "dir" /\ \A k \in Slots : ~EmptyDir.ents[k].valid
  BY DEF EmptyDir, Content, DirBlock, EmptySlot, Dirent
<1>6. in \in Content /\ Zeros \in Content /\ Super \in Content /\ BlockMap \in Content
  BY <1>3 DEF Content
<1> HIDE DEF in
<1>7. \A b \in Blk : disk[b] =
        CASE b = 0          -> Super
          [] b = 1          -> BlockMap
          [] b = RootInum   -> in
          [] b = RootDirBlk -> EmptyDir
          [] OTHER          -> Zeros
  BY <1>1 DEF Image, in
<1>8. /\ disk[0] = Super /\ disk[1] = BlockMap /\ disk[RootInum] = in
      /\ disk[RootDirBlk] = EmptyDir
      /\ \A b \in Blk : b \notin {0, 1, RootInum, RootDirBlk} => disk[b] = Zeros
  <2>1. disk[0] = Super /\ disk[1] = BlockMap
    BY <1>2, <1>7
  <2>2. disk[RootInum] = in
    BY <1>2, <1>7
  <2>3. disk[RootDirBlk] = EmptyDir
    <3>1. RootDirBlk # 0 /\ RootDirBlk # 1 /\ RootDirBlk # RootInum
      BY <1>2, LayoutAssumption
    <3>. QED BY <1>2, <1>7, <3>1
  <2>4. \A b \in Blk : b \notin {0, 1, RootInum, RootDirBlk} => disk[b] = Zeros
    BY <1>7
  <2>. QED BY <2>1, <2>2, <2>3, <2>4
<1>9. disk \in [Blk -> Content]
  <2>1. disk = [b \in Blk |-> disk[b]]
    BY <1>1 DEF Image
  <2>2. \A b \in Blk : disk[b] \in Content
    BY <1>5, <1>6, <1>8
  <2>. QED BY <2>1, <2>2
<1>10. map = {0, 1, RootInum, RootDirBlk} /\ map \subseteq Blk
  BY <1>2 DEF Init
<1>11. \A b \in Blk, k \in Slots : ~IsEntry(disk, b, k)
  <2>1. \A b \in Blk : b # RootDirBlk => disk[b].kind # "dir"
    BY <1>4, <1>8 DEF Super, BlockMap, Zeros
  <2>. QED BY <1>5, <1>8, <2>1 DEF IsEntry
<1>12. Linked(disk) = {RootInum}
  BY <1>11 DEF Linked
<1>13. UsedPtrs(in) = {0}
  BY <1>3 DEF UsedPtrs
<1>14. InodeSound(map, disk, RootInum)
  BY <1>3, <1>4, <1>5, <1>8, <1>10, <1>13 DEF InodeSound
<1>15. Reserved(map, disk)
  BY <1>3, <1>4, <1>8, <1>10 DEF Reserved
<1>16. AllSound(map, disk)
  BY <1>12, <1>14 DEF AllSound
<1>17. NoSharing(disk)
  BY <1>8, <1>12, <1>13 DEF NoSharing
<1>18. OneEntry(disk) /\ EntriesMarked(map, disk)
  BY <1>11 DEF OneEntry, EntriesMarked
<1>19. Sound
  BY <1>9, <1>10, <1>15, <1>16, <1>17, <1>18 DEF Sound, SoundImage
<1>20. TypeOK
  BY <1>9, <1>10 DEF Init, TypeOK
<1>. QED BY <1>19, <1>20 DEF IInv

\* Every handler, a remount and a stuttering step keep the invariant, and leak
\* nothing unless they meet a limit.
LEMMA StepTidy == IInv /\ [Next]_vars => IInv' /\ Tidy
<1> SUFFICES ASSUME IInv, [Next]_vars PROVE IInv' /\ Tidy
  OBVIOUS
<1>1. CASE UNCHANGED vars
  BY <1>1 DEF vars, IInv, TypeOK, Sound, Tidy, NoLeak
<1>2. CASE fs_init
  BY <1>2 DEF fs_init, IInv, TypeOK, Sound, Tidy, NoLeak
<1>3. CASE \E p \in Paths, perm \in Perms, now \in Times : fs_create(p, perm, now)
  BY <1>3, CreateKeeps
<1>4. CASE \E p \in Paths, perm \in Perms, now \in Times : fs_mkdir(p, perm, now)
  BY <1>4, MkdirKeeps
<1>5. CASE \E p \in Paths \ {<<>>}, now \in Times : fs_unlink(p, now)
  BY <1>5, UnlinkKeeps
<1>6. CASE \E p \in Paths \ {<<>>}, now \in Times : fs_rmdir(p, now)
  BY <1>6, RmdirKeeps
<1>7. CASE \E src, dst \in Paths : fs_rename(src, dst)
  BY <1>7, RenameKeeps
<1>8. CASE \E p \in Paths, perm \in Perms : fs_chmod(p, perm)
  BY <1>8, ChmodKeeps
<1>9. CASE \E p \in Paths, t \in Times : fs_utime(p, t)
  BY <1>9, UtimeKeeps
<1>10. CASE \E p \in Paths, len \in {0} \cup Lengths : fs_truncate(p, len)
  BY <1>10, TruncateKeeps
<1>11. CASE \E p \in Paths, off \in Offsets, len \in Lengths, now \in Times :
              fs_write(p, off, len, now)
  BY <1>11, RequestAssumption, WriteKeeps
<1>. QED BY <1>1, <1>2, <1>3, <1>4, <1>5, <1>6, <1>7, <1>8, <1>9, <1>10, <1>11 DEF Next

LEMMA StepKeeps == IInv /\ [Next]_vars => IInv'
BY StepTidy

\* The invariant holds in every state of the file system.
THEOREM Invariance == Spec => []IInv
BY InitHolds, StepKeeps, PTL DEF Spec

\* After any sequence of requests, aborts and remounts the map has only bits
\* of the map, every block holds a well-formed structure, and every handler
\* has answered with a known errno or a count.
THEOREM TypeCorrect == Spec => []TypeOK
<1>1. IInv => TypeOK
  BY DEF IInv
<1>. QED BY <1>1, Invariance, PTL

\* The superblock, the block map and the root directory are never given away
\* or overwritten, even when the disk is full and handlers abort.
THEOREM ReservedKept == Spec => []ReservedSafe
<1>1. IInv => ReservedSafe
  BY DEF IInv, Sound, SoundImage, ReservedSafe
<1>. QED BY <1>1, Invariance, PTL

\* Whatever an entry leads to is marked in the block map and holds what its
\* inode says.
THEOREM NoDangling == Spec => []LinkedSound
<1>1. IInv => LinkedSound
  BY DEF IInv, Sound, SoundImage, LinkedSound
<1>. QED BY <1>1, Invariance, PTL

\* No block ever belongs to two files or directories, or twice to one.
THEOREM NoSharedBlocks == Spec => []Exclusive
<1>1. IInv => Exclusive
  BY DEF IInv, Sound, SoundImage, Exclusive
<1>. QED BY <1>1, Invariance, PTL

\* No inode ever has two entries, and the root has none.
THEOREM NoHardLinks == Spec => []SingleEntry
<1>1. IInv => SingleEntry
  BY DEF IInv, Sound, SoundImage, SingleEntry
<1>. QED BY <1>1, Invariance, PTL

\* A directory block that is not marked has no entries.
THEOREM NothingLost == Spec => []FreedDirsEmpty
<1>1. IInv => FreedDirsEmpty
  BY DEF IInv, Sound, SoundImage, FreedDirsEmpty
<1>. QED BY <1>1, Invariance, PTL

\* gen-disk.py marks the blocks of the empty image and no others.
LEMMA InitTight == Init => NoLeak
<1> SUFFICES ASSUME Init PROVE NoLeak
  OBVIOUS
<1>1. IInv
  BY InitHolds
<1>2. InUse(disk) \subseteq map
  BY <1>1, UseMarked DEF IInv, Sound
<1>3. RootInum \in Linked(disk)
  BY DEF Linked
<1>4. disk[RootInum].ptrs[0] = RootDirBlk /\ disk[RootInum].type = "dir"
  <2>1. PICK perm \in Perms, t \in Times : disk = Image(perm, t)
    BY DEF Init
  <2>2. /\ RootInum \in Blk /\ RootInum # 0 /\ RootInum # 1
        /\ RootDirBlk \in Blk /\ RootInum # RootDirBlk
    BY LayoutAssumption DEF Blk, RootInum
  <2>3. disk[RootInum] = NewInode("dir", perm, t, BlockSize, RootDirBlk)
    BY <2>1, <2>2 DEF Image
  <2>. QED BY <2>2, <2>3, NewInodeTypes, Sizes DEF FileTypes
<1>5. {RootInum, RootDirBlk} \subseteq Owned(disk, RootInum)
  BY <1>4 DEF Owned, UsedPtrs
<1>6. {0, 1, RootInum, RootDirBlk} \subseteq InUse(disk)
  BY <1>3, <1>5 DEF InUse
<1>. QED BY <1>2, <1>6 DEF Init, NoLeak

\* A request in an image without leaked blocks leaks one only if it meets the
\* end of the block map, of a directory or of the field for a name: unlink,
\* rmdir and truncate free exactly what create, mkdir and write allocated,
\* for every size of a block, a file and a directory.
THEOREM LeaksAtLimits == Spec => LeaksOnlyAtLimits
<1>1. IInv /\ [Next]_vars => [NoLeak => NoLeak' \/ AtLimit]_vars
  BY StepTidy DEF Tidy
<1>. QED BY <1>1, Invariance, PTL DEF Spec, LeaksOnlyAtLimits

\* As long as no request meets a limit, every marked block is in use.
THEOREM NothingLeaks == Spec /\ [][~AtLimit]_vars => []NoLeak
<1>1. IInv /\ NoLeak /\ [Next]_vars /\ [~AtLimit]_vars => NoLeak'
  <2> SUFFICES ASSUME IInv, NoLeak, [Next]_vars, [~AtLimit]_vars PROVE NoLeak'
    OBVIOUS
  <2>1. CASE UNCHANGED vars
    BY <2>1 DEF vars, NoLeak
  <2>2. CASE ~AtLimit
    BY <2>2, StepTidy DEF Tidy
  <2>. QED BY <2>1, <2>2
<1>. QED BY <1>1, InitTight, Invariance, PTL DEF Spec
=============================================================================
