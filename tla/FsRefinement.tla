---------------------------- MODULE FsRefinement ----------------------------
(***************************************************************************)
(* Fs5600 implements Namespace, but for the answers listed under           *)
(* Deviation and the loss described by LongRename.  The refinement mapping *)
(* is Tree: what path2inum finds on the disk, with the attributes of the   *)
(* inodes.  The history variables record what the caller sees: the         *)
(* request, the answer and the tree, which is read anew only when the disk *)
(* has changed.  A request that ends in an abort is answered by the        *)
(* kernel, with ENOTCONN; a new mount does not show in the tree.           *)
(***************************************************************************)
EXTENDS FsInvariants

VARIABLES
  tree,     \* always equal to Tree
  req,      \* the last request
  answer    \* what its caller was told

NS == INSTANCE Namespace WITH ret <- answer

ENOTCONN == 107

Attributes(i) ==
  [type |-> disk[i].type, perm |-> disk[i].perm, ctime |-> disk[i].ctime,
   mtime |-> disk[i].mtime, size |-> disk[i].size]

Tree == [p \in {q \in Paths : Exists(q)} |-> Attributes(path2inum(p))]

\* The handler of request r has just run.
Ask(r) ==
  /\ req' = r
  /\ answer' = IF up' = "mounted" THEN ret' ELSE -ENOTCONN
  /\ tree' = IF disk' = disk THEN tree ELSE Tree'

HInit == Init /\ tree = Tree /\ req = <<"none">> /\ answer = 0

HNext ==
  \/ fs_init /\ UNCHANGED <<tree, req, answer>>
  \/ \E p \in Paths, perm \in Perms, now \in Times :
       fs_create(p, perm, now) /\ Ask(<<"create", p, perm, now>>)
  \/ \E p \in Paths, perm \in Perms, now \in Times :
       fs_mkdir(p, perm, now) /\ Ask(<<"mkdir", p, perm, now>>)
  \/ \E p \in Paths \ {<<>>}, now \in Times : fs_unlink(p, now) /\ Ask(<<"unlink", p, now>>)
  \/ \E p \in Paths \ {<<>>}, now \in Times : fs_rmdir(p, now) /\ Ask(<<"rmdir", p, now>>)
  \/ \E src, dst \in Paths : fs_rename(src, dst) /\ Ask(<<"rename", src, dst>>)
  \/ \E p \in Paths, perm \in Perms : fs_chmod(p, perm) /\ Ask(<<"chmod", p, perm>>)
  \/ \E p \in Paths, t \in Times : fs_utime(p, t) /\ Ask(<<"utime", p, t>>)
  \/ \E p \in Paths, len \in {0} \cup Lengths :
       fs_truncate(p, len) /\ Ask(<<"truncate", p, len>>)
  \/ \E p \in Paths, off \in Offsets, len \in Lengths, now \in Times :
       fs_write(p, off, len, now) /\ Ask(<<"write", p, off, len, now>>)

HSpec == HInit /\ [][HNext]_<<vars, tree, req, answer>>

-----------------------------------------------------------------------------
(***************************************************************************)
(* Where fs5600.c does not do what its comments say.                       *)
(***************************************************************************)
\* The directory of p has no free entry.
DirFull(p) == FreeSlots(Dirs(path2inum(Front(p)))) = {}

\* Directory p holds an entry of 28 letters, which no path leads to.
HoldsLong(p) == \E k \in Slots : LET e == Dirs(path2inum(p))[k]
                                IN  e.valid /\ e.name \in LongNames

\* Other answers than the documented ones.  None of them changes the tree.
Deviation ==
  /\ tree' = tree
  /\ \/ \* 811 and 936: a full directory is EINVAL; 694-695 say ENOSPC
        \E h \in {"create", "mkdir"}, p \in Paths, perm \in Perms, now \in Times :
          /\ req' = <<h, p, perm, now>> /\ answer' = -EINVAL
          /\ NS!CanMake(p) /\ DirFull(p)
     \/ \* 786 and 911: a full block map ends the process, here and below
        \E h \in {"create", "mkdir"}, p \in Paths, perm \in Perms, now \in Times :
          /\ req' = <<h, p, perm, now>> /\ answer' = -ENOTCONN
          /\ NS!CanMake(p) /\ Cardinality(FreeBits(map)) < (IF h = "mkdir" THEN 2 ELSE 1)
     \/ \E p \in Paths, off \in Offsets, len \in Lengths, now \in Times :
          /\ req' = <<"write", p, off, len, now>> /\ answer' = -ENOTCONN
          /\ NS!FileHere(p) /\ off + len > tree[p].size
          /\ Cardinality(FreeBits(map)) < NumPtrs
     \/ \* 1163: a write past the end is answered with 0; 1139 says EINVAL
        \E p \in Paths, off \in Offsets, len \in Lengths, now \in Times :
          /\ req' = <<"write", p, off, len, now>> /\ answer' = 0
          /\ NS!FileHere(p) /\ off > tree[p].size
     \/ \* 586: a missing source in a subdirectory is EINVAL; 573 says ENOENT
        \E src, dst \in Paths :
          /\ req' = <<"rename", src, dst>> /\ answer' = -EINVAL
          /\ ~NS!Here(src) /\ Len(src) > 1
     \/ \* 1291: utime refuses directories; 1274 lists no such error
        \E p \in Paths, t \in Times :
          /\ req' = <<"utime", p, t>> /\ answer' = -EISDIR
          /\ NS!DirHere(p)
     \/ \* 1098: a directory with nothing but an entry that LongRename lost
        \E p \in Paths, now \in Times :
          /\ req' = <<"rmdir", p, now>> /\ answer' = -ENOTEMPTY
          /\ NS!DirHere(p) /\ NS!Children(p) = {} /\ HoldsLong(p)

\* 639: a rename to a name of 28 letters succeeds, and takes the source and at
\* most one neighbour, with everything below them, out of the tree.
LongRename ==
  \E src, dst \in Paths :
    /\ req' = <<"rename", src, dst>> /\ answer' = 0
    /\ NS!Here(src) /\ NS!Siblings(src, dst) /\ Last(dst) \in LongNames
    /\ \E lost \in NS!Children(Front(src)) :
         tree' = [q \in {x \in DOMAIN tree : ~IsPrefix(src, x) /\ ~IsPrefix(lost, x)} |->
                    tree[q]]

\* Every request to fs5600.c has the effect on the tree of names, and the
\* answer, that its comment promises for that request (Namespace), except
\* that some answers differ (Deviation) and that a rename to a name of 28
\* letters loses names (LongRename); whatever the answer, errors, aborts and
\* remounts change no name and no attribute.
ImplementsNamespace ==
  NS!NSInit /\ [][NS!NSNext \/ Deviation \/ LongRename]_NS!nsvars
=============================================================================
