------------------------------ MODULE FsSteps -------------------------------
(***************************************************************************)
(* The handlers of fs5600.c block write by block write, one request at a   *)
(* time, with crashes of the process in between.  What write() has taken   *)
(* is on the image for good, in the order of the calls, when the process   *)
(* dies.                                                                   *)
(*                                                                         *)
(* A handler that writes is a first step, which looks the path up, tests   *)
(* the arguments and copies inodes into local variables, and then one step *)
(* for each block_write, in the order of the code.  No step is needed for  *)
(* a block_read: nobody else writes between it and the next write.  The    *)
(* handlers with a single block_write (rename, chmod, utime) are the       *)
(* actions of Fs5600.                                                      *)
(***************************************************************************)
EXTENDS FsInvariants

VARIABLES
  req,     \* the last request: its handler, its path and other arguments
  op,      \* where its handler is, and the handler's local variables
  redo,    \* history: req is a removal that a crash interrupted
  strayed, \* history: after such a crash another request was taken
  map0,    \* history: map and
  disk0    \* disk before the first write of the handler that runs

svars == <<map, disk, ret, up, req, op, redo, strayed, map0, disk0>>

\* Fs5600 as it sees the image between requests.
F == INSTANCE FsInvariants WITH map <- map0, disk <- disk0

Idle == [pc |-> "idle"]

Removing == {"unlink", "rmdir", "truncate"}

SInit ==
  /\ Init
  /\ req = <<"none">> /\ op = Idle /\ redo = FALSE /\ strayed = FALSE
  /\ map0 = map /\ disk0 = disk

-----------------------------------------------------------------------------
(***************************************************************************)
(* How a handler begins, goes on and ends.                                 *)
(***************************************************************************)
\* Any request is taken when no handler runs.  After a crash in the middle of a
\* removal the blocks it freed may be given out while its entry still leads to
\* them; nothing makes the caller repeat that removal first, and strayed
\* records that he did not.
Take(r) ==
  /\ up = "mounted" /\ op = Idle
  /\ req' = r
  /\ strayed' = (strayed \/ (redo /\ req # r))

\* The local variables: i and node are new_inode_num and new_file, or inode_n
\* and fileinode, or inode_num and in; par and pnode are inode_no_parent and
\* parent_inode; q is the loop counter i, or block_num.
Call(pc, i, node, par) ==
  [pc |-> pc, i |-> i, node |-> node, par |-> par, pnode |-> disk[par],
   q |-> 0, block_offset |-> 0, nread |-> 0]

Begin(call) == op' = call /\ UNCHANGED <<map, disk, ret, up, redo, map0, disk0>>

\* It returns r.
End(r) ==
  /\ ret' = r /\ op' = Idle /\ redo' = FALSE
  /\ map0' = map' /\ disk0' = disk'
  /\ UNCHANGED up

Refuse(e) == UNCHANGED <<map, disk>> /\ End(e)

\* It goes on with local variables l.
Go(l) == op' = l /\ UNCHANGED <<ret, up, req, redo, strayed, map0, disk0>>

\* block_write of c to block lba, which ends the process unless lba > 0.
block_write(lba, c) == lba > 0 /\ disk' = [disk EXCEPT ![lba] = c] /\ UNCHANGED map

AssertFails(lba) ==
  /\ lba <= 0
  /\ up' = "down" /\ op' = Idle
  /\ map0' = map /\ disk0' = disk
  /\ UNCHANGED <<map, disk, ret, req, redo, strayed>>

-----------------------------------------------------------------------------
(***************************************************************************)
(* fs_create and fs_mkdir.                                                 *)
(***************************************************************************)
create_begin(p, perm, now) ==
  /\ Take(<<"create", p, perm, now>>)
  /\ \/ create_errno(p) # 0 /\ Refuse(create_errno(p))
     \/ /\ create_errno(p) = 0
        /\ Begin(Call("alloc", 0, NewInode("file", perm, now, 0, NoPtr),
                      path2inum(Front(p))))

mkdir_begin(p, perm, now) ==
  /\ Take(<<"mkdir", p, perm, now>>)
  /\ \/ create_errno(p) # 0 /\ Refuse(create_errno(p))
     \/ /\ create_errno(p) = 0
        /\ Begin(Call("alloc", 0,
                      NewInode("dir", perm, now, BlockSize, NoPtr),
                      path2inum(Front(p))))

\* Mutation: the block of a new directory is emptied only after its entry is
\* there.
after_dirs_last(h, pc) ==
  CASE pc = "alloc"    -> IF h = "mkdir" THEN "allocdir" ELSE "inode"
    [] pc = "allocdir" -> "inode"
    [] pc = "inode"    -> "entry"
    [] pc = "entry"    -> IF h = "mkdir" THEN "dirs" ELSE "parent"
    [] pc = "dirs"     -> "parent"

\* The order of the block writes.
after(h, pc) ==
  CASE pc = "alloc"    -> IF h = "mkdir" THEN "allocdir" ELSE "inode"
    [] pc = "allocdir" -> "dirs"
    [] pc = "dirs"     -> "inode"
    [] pc = "inode"    -> "entry"
    [] pc = "entry"    -> "parent"

At(pc)     == op # Idle /\ op.pc = pc
Advance(l) == Go([l EXCEPT !.pc = after(req[1], op.pc)])

\* alloc_blk writes the map before its result is used, or tested.
Marked(r) == map' = (IF r > 0 THEN bit_set(map, {r}) ELSE map) /\ UNCHANGED disk

alloc_inode ==
  LET r == alloc_blk(map)
  IN  At("alloc") /\ Marked(r) /\ Advance([op EXCEPT !.i = r])

alloc_dirs ==
  LET r == alloc_blk(map)
  IN  At("allocdir") /\ Marked(r) /\ Advance([op EXCEPT !.node.ptrs[0] = r])

write_new_dirs ==
  /\ At("dirs")
  /\ \/ AssertFails(op.node.ptrs[0])
     \/ block_write(op.node.ptrs[0], EmptyDir) /\ Advance(op)

write_new_inode ==
  /\ At("inode")
  /\ \/ AssertFails(op.i)
     \/ block_write(op.i, op.node) /\ Advance(op)

\* The entries are read only now, through the parent's inode as it was read
\* at the beginning.
write_entry ==
  LET b    == op.pnode.ptrs[0]
      Free == FreeSlots(disk[b].ents)
  IN  /\ At("entry")
      /\ \/ Free = {} /\ Refuse(-EINVAL) /\ UNCHANGED <<req, strayed>>
         \/ /\ Free # {}
            /\ block_write(b, [disk[b] EXCEPT !.ents[Min(Free)] = Entry(op.i, Last(req[2]))])
            /\ Advance(op)

\* The copy of the parent's inode is written back as it was read.
write_parent == At("parent") /\ block_write(op.par, op.pnode) /\ End(0) /\ UNCHANGED <<req, strayed>>

-----------------------------------------------------------------------------
(***************************************************************************)
(* fs_unlink, fs_rmdir and fs_truncate.                                    *)
(***************************************************************************)
unlink_begin(p) ==
  /\ Take(<<"unlink", p>>)
  /\ \/ unlink_errno(p) # 0 /\ Refuse(unlink_errno(p))
     \/ /\ unlink_errno(p) = 0
        /\ Begin(Call("free", path2inum(p), disk[path2inum(p)],
                      path2inum(Front(p))))

rmdir_begin(p) ==
  /\ Take(<<"rmdir", p>>)
  /\ \/ rmdir_errno(p) # 0 /\ Refuse(rmdir_errno(p))
     \/ /\ rmdir_errno(p) = 0
        /\ Begin(Call("free", path2inum(p), disk[path2inum(p)],
                      path2inum(Front(p))))

\* It has no parent to write; par is the root only to fill the record.
truncate_begin(p, len) ==
  /\ Take(<<"truncate", p, len>>)
  /\ \/ len # 0 /\ Refuse(-EINVAL)
     \/ len = 0 /\ file_errno(p) # 0 /\ Refuse(file_errno(p))
     \/ /\ len = 0
        /\ file_errno(p) = 0
        /\ Begin(Call("free", path2inum(p), disk[path2inum(p)],
                      RootInum))

\* How many blocks are freed before the inode: all of a file's, or the one of
\* a directory.
ToFree == IF req[1] = "rmdir" THEN 1 ELSE nblocks(op.node)

\* Mutation: the loop counter stays where it is.
free_block_stuck ==
  /\ At("free") /\ op.q < ToFree
  /\ map' = free_blk(map, {op.node.ptrs[op.q]}) /\ UNCHANGED disk
  /\ Go(op)

\* One turn of the loop.
free_block ==
  /\ At("free") /\ op.q < ToFree
  /\ map' = free_blk(map, {op.node.ptrs[op.q]}) /\ UNCHANGED disk
  /\ Go([op EXCEPT !.q = @ + 1])

\* Mutation: the inode's own block is not freed.
free_inode_kept ==
  /\ At("free") /\ op.q = ToFree /\ req[1] # "truncate"
  /\ UNCHANGED <<map, disk>>
  /\ Go([op EXCEPT !.pc = "clear"])

free_inode ==
  /\ At("free") /\ op.q = ToFree /\ req[1] # "truncate"
  /\ map' = free_blk(map, {op.i}) /\ UNCHANGED disk
  /\ Go([op EXCEPT !.pc = "clear"])

\* The entry is found by its inode number; the block is written even if
\* there is none.
clear_entry ==
  LET b    == op.pnode.ptrs[0]
      ents == disk[b].ents
      K    == {k \in Slots : ents[k].valid /\ ents[k].inode = op.i}
  IN  /\ At("clear")
      /\ block_write(b, IF K = {} THEN disk[b]
                        ELSE [disk[b] EXCEPT !.ents[Min(K)] = EmptySlot])
      /\ Go([op EXCEPT !.pc = "stamp"])

stamp_parent(now) ==
  /\ At("stamp")
  /\ block_write(op.par, [op.pnode EXCEPT !.mtime = now])
  /\ End(0) /\ UNCHANGED <<req, strayed>>

truncate_inode ==
  /\ At("free") /\ op.q = ToFree /\ req[1] = "truncate"
  /\ block_write(op.i, [op.node EXCEPT !.size = 0])
  /\ End(0) /\ UNCHANGED <<req, strayed>>

-----------------------------------------------------------------------------
(***************************************************************************)
(* fs_write.                                                               *)
(***************************************************************************)
write_begin(p, off, len) ==
  /\ Take(<<"write", p, off, len>>)
  /\ \/ ~write_allowed(p, off, len) /\ Refuse(write_answer(p, off, len))
     \/ /\ write_allowed(p, off, len)
        /\ Begin([Call("loop", path2inum(p), disk[path2inum(p)], RootInum)
                    EXCEPT !.q = off \div BlockSize, !.block_offset = off % BlockSize])

offset == req[3]
length == req[4]
InLoop == At("loop") /\ op.nread < length

\* in.size keeps its value in the loop, and so does the first new index.
alloc_data ==
  LET r == alloc_blk(map)
  IN  /\ InLoop /\ op.q >= nblocks(op.node)
      /\ Marked(r)
      /\ Go([op EXCEPT !.node.ptrs[op.q] = r, !.pc = "data"])

\* Mutation: the inode is written with every block.
write_data_and_inode ==
  LET readlength == Min({BlockSize - op.block_offset, length - op.nread})
      lba        == op.node.ptrs[op.q]
      nread      == op.nread + readlength
  IN  /\ At("data") \/ (InLoop /\ op.q < nblocks(op.node))
      /\ lba > 0
      /\ disk' = [disk EXCEPT ![lba] = Data,
                              ![op.i] = [op.node EXCEPT !.size = offset + nread]]
      /\ UNCHANGED map
      /\ Go([op EXCEPT !.nread = nread, !.q = @ + 1, !.block_offset = 0, !.pc = "loop"])

\* The second half of a turn: the block is read, changed and written.
write_data ==
  LET readlength == Min({BlockSize - op.block_offset, length - op.nread})
      lba        == op.node.ptrs[op.q]
  IN  /\ At("data") \/ (InLoop /\ op.q < nblocks(op.node))
      /\ \/ AssertFails(lba)
         \/ /\ block_write(lba, Data)
            /\ Go([op EXCEPT !.nread = @ + readlength, !.q = @ + 1,
                             !.block_offset = 0, !.pc = "loop"])

\* Mutation: the size is set even when the write ends inside the file.
write_inode_shrinks(now) ==
  /\ At("loop") /\ op.nread = length
  /\ block_write(op.i, [op.node EXCEPT !.size = offset + length, !.mtime = now])
  /\ End(op.nread) /\ UNCHANGED <<req, strayed>>

write_inode(now) ==
  LET new_size == offset + length
  IN  /\ At("loop") /\ op.nread = length
      /\ block_write(op.i, [op.node EXCEPT !.size = IF new_size > @ THEN new_size ELSE @,
                                           !.mtime = now])
      /\ End(op.nread) /\ UNCHANGED <<req, strayed>>

-----------------------------------------------------------------------------
(***************************************************************************)
(* The handlers with one block write, and fs_init.                         *)
(***************************************************************************)
Sync == UNCHANGED <<op, redo>> /\ map0' = map' /\ disk0' = disk'

rename(src, dst) == Take(<<"rename", src, dst>>) /\ fs_rename(src, dst) /\ Sync
chmod(p, perm)   == Take(<<"chmod", p, perm>>) /\ fs_chmod(p, perm) /\ Sync
utime(p, t)      == Take(<<"utime", p, t>>) /\ fs_utime(p, t) /\ Sync
init             == fs_init /\ UNCHANGED <<req, strayed>> /\ Sync

(***************************************************************************)
(* The process is killed while a handler runs.                             *)
(***************************************************************************)
Crash ==
  /\ op # Idle
  /\ up' = "down" /\ op' = Idle
  /\ redo' = (req[1] \in Removing)
  /\ map0' = map /\ disk0' = disk
  /\ UNCHANGED <<map, disk, ret, req, strayed>>

-----------------------------------------------------------------------------
Request ==
  \/ \E p \in Paths, perm \in Perms, now \in Times : create_begin(p, perm, now)
  \/ \E p \in Paths, perm \in Perms, now \in Times : mkdir_begin(p, perm, now)
  \/ \E p \in Paths \ {<<>>} : unlink_begin(p)
  \/ \E p \in Paths \ {<<>>} : rmdir_begin(p)
  \/ \E p \in Paths, len \in {0} \cup Lengths : truncate_begin(p, len)
  \/ \E p \in Paths, off \in Offsets, len \in Lengths : write_begin(p, off, len)
  \/ \E src, dst \in Paths : rename(src, dst)
  \/ \E p \in Paths, perm \in Perms : chmod(p, perm)
  \/ \E p \in Paths, t \in Times : utime(p, t)

\* The handler that runs takes its next step.
Step ==
  \/ alloc_inode
  \/ alloc_dirs
  \/ write_new_dirs
  \/ write_new_inode
  \/ write_entry
  \/ write_parent
  \/ free_block
  \/ free_inode
  \/ clear_entry
  \/ \E now \in Times : stamp_parent(now)
  \/ truncate_inode
  \/ alloc_data
  \/ write_data
  \/ \E now \in Times : write_inode(now)

SNext == init \/ Request \/ Step \/ Crash

\* A handler waits for nobody, so it takes its next step unless the process
\* dies.  Nothing is assumed of the callers and of whoever mounts.
SSpec == SInit /\ [][SNext]_svars /\ WF_svars(Step)
=============================================================================
