------------------------------- MODULE FsCrash ------------------------------
(***************************************************************************)
(* What the order of the block writes in fs5600.c guarantees: a request    *)
(* that runs to its end is atomic, and a crash by itself harms at most the *)
(* file or directory that was being removed.                               *)
(*                                                                         *)
(* All of it ends where the code's own guarantee ends.  A removal frees    *)
(* blocks before it clears the entry, so after a crash in the middle of it *)
(* they are free while the entry still leads to them.  Repeating the       *)
(* removal mends this; any other request may be given those blocks (rmdir  *)
(* of /d dies after free_blk(inode_n), create of /d/x is given the block   *)
(* of /d's own inode and line 817 writes the old inode back over it).      *)
(* Every property therefore says ~strayed: since the last such crash no    *)
(* request but the interrupted removal was taken.                          *)
(***************************************************************************)
EXTENDS FsSteps

\* The atomic handler of Fs5600 for request r.
Atomic(r) ==
  CASE r[1] = "create"   -> F!fs_create(r[2], r[3], r[4])
    [] r[1] = "mkdir"    -> F!fs_mkdir(r[2], r[3], r[4])
    [] r[1] = "unlink"   -> \E now \in Times : F!fs_unlink(r[2], now)
    [] r[1] = "rmdir"    -> \E now \in Times : F!fs_rmdir(r[2], now)
    [] r[1] = "rename"   -> F!fs_rename(r[2], r[3])
    [] r[1] = "chmod"    -> F!fs_chmod(r[2], r[3])
    [] r[1] = "utime"    -> F!fs_utime(r[2], r[3])
    [] r[1] = "truncate" -> F!fs_truncate(r[2], r[3])
    [] r[1] = "write"    -> \E now \in Times : F!fs_write(r[2], r[3], r[4], now)
    [] OTHER             -> FALSE

\* Unless it comes after an interrupted removal that was not repeated, every
\* request that returns, or ends in an abort, has changed the image exactly as
\* the atomic handler of Fs5600 does, although it works on copies of inodes it
\* read earlier; a crash is the only other thing that happens.
ImplementsFs5600 ==
  F!Init /\ [][~strayed' => (Crash \/ F!fs_init \/ Atomic(req'))]_F!vars

\* The inode that a removal, running or interrupted, is about.
Target ==
  IF op # Idle /\ req[1] \in Removing THEN {op.i}
  ELSE IF redo /\ Exists(req[2]) THEN {path2inum(req[2])}
  ELSE {}

\* At every moment until a caller strays, and so after a crash between any two
\* block writes, the image is sound but for the file or directory being
\* removed, whose blocks may be free already while its entry is still there
\* (fs_unlink, fs_rmdir and fs_truncate free first).  A crash in create, mkdir
\* or write leaves nothing unsound, and an interrupted removal that is
\* repeated, however often it is interrupted again, leaves nothing unsound
\* when it returns.  Nothing is said of an image on which an interrupted
\* removal was followed by another request.
CrashContained ==
  ~strayed =>
    /\ Reserved(map, disk)
    /\ \A i \in Linked(disk) \ Target : InodeSound(map, disk, i)
    /\ NoSharing(disk)
    /\ OneEntry(disk)
    /\ EntriesMarked(map, disk)

\* The blocks that are marked and belong to nothing.
Leaked(m, d) == m \ InUse(d)

\* Until a caller strays, a crash leaks at most the blocks that the interrupted
\* request allocated itself; a removal, which allocates none, leaks nothing
\* however often it is interrupted and repeated.
LeakBounded ==
  ~strayed /\ op # Idle =>
    Leaked(map, disk) \subseteq Leaked(map0, disk0) \cup (map \ map0)

\* Until a caller strays, what callers see of names and attributes changes in
\* one block write: after a crash they find either what was there before the
\* request or what the whole request leaves, apart from the mtime of a
\* directory.
ChangesAtOnce == [][~strayed' /\ Visible' # Visible => Visible = F!Visible]_disk

\* Until a caller strays, every request is answered unless the process dies:
\* the loops over the blocks of a file end and no handler waits.
RequestsEnd == (op # Idle) ~> (op = Idle \/ strayed)
=============================================================================
