----------------------------- MODULE Namespace ------------------------------
(***************************************************************************)
(* What the comments above the handlers of fs5600.c promise to callers: a  *)
(* tree of named files and directories with their attributes.  There are   *)
(* no blocks, inode numbers or entries here.  A request that succeeds has  *)
(* exactly its effect, and a request that is answered with an error has    *)
(* none.  The errors are the documented ones; where the code answers       *)
(* otherwise, FsRefinement lists it.                                       *)
(*                                                                         *)
(* Which errno answers a path that leads nowhere is left open (ENOENT or   *)
(* ENOTDIR).  Creating a name and extending a file may be refused for lack *)
(* of space.                                                               *)
(***************************************************************************)
EXTENDS FsFormat

VARIABLES
  tree,   \* a function from the paths that exist to their attributes
  req,    \* the last request: its name and its arguments
  ret     \* the answer to it

nsvars == <<tree, req, ret>>

Attr == [type : FileTypes, perm : Perms, ctime : Times, mtime : Times,
         size : 0 .. MaxFile]

Node(type, perm, now, size) ==
  [type |-> type, perm |-> perm, ctime |-> now, mtime |-> now, size |-> size]

NSInit ==
  /\ tree \in {[p \in {<<>>} |-> Node("dir", perm, t, BlockSize)] :
                 perm \in Perms, t \in Times}
  /\ req = <<"none">>
  /\ ret = 0

-----------------------------------------------------------------------------
Here(p)     == p \in DOMAIN tree
DirHere(p)  == Here(p) /\ tree[p].type = "dir"
FileHere(p) == Here(p) /\ tree[p].type = "file"
Children(p) == {q \in DOMAIN tree : q # <<>> /\ Front(q) = p}

Refuse(E)  == tree' = tree /\ ret' \in {-e : e \in E}
Answer(t)  == tree' = t /\ ret' = 0

\* p leads nowhere.
Missing(p) == ~Here(p) /\ Refuse({ENOENT, ENOTDIR})

\* p can be made: the name is free, fits, and its directory is there.
CanMake(p) ==
  ~Here(p) /\ p # <<>> /\ Last(p) \notin LongNames /\ DirHere(Front(p))

Make(p, node) ==
  \/ Here(p) /\ Refuse({EEXIST})
  \/ ~Here(p) /\ Last(p) \in LongNames /\ Refuse({EINVAL})
  \/ ~Here(p) /\ ~DirHere(Front(p)) /\ Refuse({ENOENT, ENOTDIR})
  \/ CanMake(p) /\ Refuse({ENOSPC})
  \/ /\ CanMake(p)
     /\ Answer([q \in DOMAIN tree \cup {p} |-> IF q = p THEN node ELSE tree[q]])

\* p disappears and its directory is stamped with the time.
Without(p, now) ==
  [q \in DOMAIN tree \ {p} |->
     IF q = Front(p) THEN [tree[q] EXCEPT !.mtime = now] ELSE tree[q]]

Unlink(p, now) ==
  \/ Missing(p)
  \/ DirHere(p) /\ Refuse({EISDIR})
  \/ FileHere(p) /\ Answer(Without(p, now))

Rmdir(p, now) ==
  \/ Missing(p)
  \/ FileHere(p) /\ Refuse({ENOTDIR})
  \/ DirHere(p) /\ Children(p) # {} /\ Refuse({ENOTEMPTY})
  \/ DirHere(p) /\ Children(p) = {} /\ Answer(Without(p, now))

\* Everything at or below src moves to the same place below dst.
Rebase(q, src, dst) ==
  IF IsPrefix(src, q) THEN dst \o SubSeq(q, Len(src) + 1, Len(q)) ELSE q

Siblings(src, dst) == src # <<>> /\ dst # <<>> /\ Front(src) = Front(dst)

\* The comment says nothing of a new name that is too long; it is refused as
\* create and mkdir refuse it.
Rename(src, dst) ==
  \/ Missing(src)
  \/ Here(src) /\ Here(dst) /\ Refuse({EEXIST})
  \/ /\ Here(src) /\ ~Here(dst)
     /\ ~Siblings(src, dst) \/ Last(dst) \in LongNames
     /\ Refuse({EINVAL})
  \/ /\ Here(src) /\ ~Here(dst)
     /\ Siblings(src, dst) /\ Last(dst) \notin LongNames
     /\ Answer([q \in {Rebase(x, src, dst) : x \in DOMAIN tree} |->
                  tree[Rebase(q, dst, src)]])

Chmod(p, perm) ==
  \/ Missing(p)
  \/ Here(p) /\ Answer([tree EXCEPT ![p].perm = perm])

Utime(p, t) ==
  \/ Missing(p)
  \/ Here(p) /\ Answer([tree EXCEPT ![p].mtime = t])

\* The refusals shared by truncate and write.
NotAFile(p) ==
  \/ Missing(p)
  \/ DirHere(p) /\ Refuse({EISDIR})

Truncate(p, len) ==
  \/ len # 0 /\ Refuse({EINVAL})
  \/ len = 0 /\ NotAFile(p)
  \/ len = 0 /\ FileHere(p) /\ Answer([tree EXCEPT ![p].size = 0])

\* No holes: a write starts inside the file or at its end.  One that extends
\* the file may find no space.
Write(p, off, len, now) ==
  \/ NotAFile(p)
  \/ /\ FileHere(p)
     /\ off > tree[p].size
     /\ Refuse({EINVAL})
  \/ /\ FileHere(p)
     /\ off + len > tree[p].size
     /\ Refuse({ENOSPC})
  \/ /\ FileHere(p)
     /\ off <= tree[p].size /\ off + len <= MaxFile
     /\ tree' = [tree EXCEPT
                   ![p].size  = IF off + len > @ THEN off + len ELSE @,
                   ![p].mtime = now]
     /\ ret' = len

Create(p, perm, now) == Make(p, Node("file", perm, now, 0))
Mkdir(p, perm, now)  == Make(p, Node("dir", perm, now, BlockSize))

NSNext ==
  \/ \E p \in Paths, perm \in Perms, now \in Times :
       \/ req' = <<"create", p, perm, now>> /\ Create(p, perm, now)
       \/ req' = <<"mkdir", p, perm, now>> /\ Mkdir(p, perm, now)
  \/ \E p \in Paths \ {<<>>}, now \in Times :
       \/ req' = <<"unlink", p, now>> /\ Unlink(p, now)
       \/ req' = <<"rmdir", p, now>> /\ Rmdir(p, now)
  \/ \E src, dst \in Paths : req' = <<"rename", src, dst>> /\ Rename(src, dst)
  \/ \E p \in Paths, perm \in Perms : req' = <<"chmod", p, perm>> /\ Chmod(p, perm)
  \/ \E p \in Paths, t \in Times : req' = <<"utime", p, t>> /\ Utime(p, t)
  \/ \E p \in Paths, len \in {0} \cup Lengths :
       req' = <<"truncate", p, len>> /\ Truncate(p, len)
  \/ \E p \in Paths, off \in Offsets, len \in Lengths, now \in Times :
       req' = <<"write", p, off, len, now>> /\ Write(p, off, len, now)

NSSpec == NSInit /\ [][NSNext]_nsvars
=============================================================================
