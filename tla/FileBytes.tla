----------------------------- MODULE FileBytes ------------------------------
(***************************************************************************)
(* Fs5600 with the bytes of data blocks: the copying loops of fs_read and  *)
(* fs_write.  Shown to implement FlatFiles.                                *)
(*                                                                         *)
(* A block that holds an inode or entries, or that nobody wrote, has bytes *)
(* that are Junk; a block that is freed keeps what it holds.  So Junk in a *)
(* file, or the bytes of another one, is a wrong answer.                   *)
(***************************************************************************)
EXTENDS FsInvariants

CONSTANTS
  Bytes,    \* the values of a byte that callers write
  Junk      \* any byte that no caller wrote

ASSUME JunkAssumption == Junk \notin Bytes

VARIABLES
  bytes,    \* the bytes of the blocks that the image file has
  req,      \* the last request
  answer    \* what its caller was told

bvars == <<map, disk, ret, up, bytes, req, answer>>

InBlock == 0 .. BlockSize - 1
JunkBlk == [o \in InBlock |-> Junk]

\* The image file has disk_size blocks and grows when a block past its end is
\* written.
BInit ==
  /\ Init
  /\ bytes = [b \in 0 .. DiskSize - 1 |-> JunkBlk]
  /\ req = <<"none">> /\ answer = 0

\* A read past the end of the image file fails and leaves the buffer alone.
block_read(by, b, buffer) == IF b \in DOMAIN by THEN by[b] ELSE buffer

block_write(by, b, buffer) ==
  [c \in DOMAIN by \cup 0 .. b |->
     IF c = b THEN buffer ELSE IF c \in DOMAIN by THEN by[c] ELSE JunkBlk]

-----------------------------------------------------------------------------
(***************************************************************************)
(* The loop of fs_write, from inode in with the bytes buf at offset off.   *)
(***************************************************************************)
\* Mutation: the second block, too, is changed from the first offset on.
write_next_keeps_offset(s, readlength) ==
  [s EXCEPT !.nread = @ + readlength, !.block_num = @ + 1]

\* The end of a turn.
write_next(s, readlength) ==
  [s EXCEPT !.nread = @ + readlength, !.block_num = @ + 1, !.block_offset = 0]

\* One turn: allocate when the file has no such block yet, read, change, write.
\* It stops where the process aborts because alloc_blk returned -ENOSPC.
write_turn(in, buf, s) ==
  LET new    == s.block_num >= nblocks(in)
      ptr    == IF new THEN alloc_blk(s.map) ELSE in.ptrs[s.block_num]
      length == Min({BlockSize - s.block_offset, Len(buf) - s.nread})
      old    == block_read(s.bytes, ptr, s.buffer)
      buffer == [o \in InBlock |->
                   IF o \in s.block_offset .. s.block_offset + length - 1
                   THEN buf[s.nread + o - s.block_offset + 1]
                   ELSE old[o]]
  IN  IF ptr < 0 THEN [s EXCEPT !.stop = TRUE]
      ELSE write_next([s EXCEPT !.map    = IF new THEN bit_set(@, {ptr}) ELSE @,
                                !.buffer = buffer,
                                !.bytes  = block_write(@, ptr, buffer)],
                      length)

\* Every turn copies a byte, so Len(buf) turns are enough.
write_loop(in, off, buf) ==
  LET s0 == [nread |-> 0, block_num |-> off \div BlockSize,
             block_offset |-> off % BlockSize, buffer |-> JunkBlk,
             map |-> map, bytes |-> bytes, stop |-> FALSE]
      s[n \in 0 .. Len(buf)] ==
        IF n = 0 THEN s0
        ELSE IF s[n - 1].stop \/ s[n - 1].nread >= Len(buf) THEN s[n - 1]
        ELSE write_turn(in, buf, s[n - 1])
  IN  s[Len(buf)]

-----------------------------------------------------------------------------
(***************************************************************************)
(* fs_read.                                                                *)
(***************************************************************************)
\* Mutation: the last turn is not cut at the end of the file.
read_length_uncut(in, off, len, s) ==
  Min({BlockSize - s.block_offset, len - Len(s.buf)})

\* How many bytes a turn copies: to the end of the block, of the request or
\* of the file.
read_length(in, off, len, s) ==
  Min({BlockSize - s.block_offset, len - Len(s.buf), in.size - off - Len(s.buf)})

read_loop(in, off, len) ==
  LET s0 == [buf |-> <<>>, block_num |-> off \div BlockSize,
             block_offset |-> off % BlockSize]
      turn(s) ==
        [buf |-> s.buf \o
                 [k \in 1 .. read_length(in, off, len, s) |->
                    bytes[in.ptrs[s.block_num]][s.block_offset + k - 1]],
         block_num |-> s.block_num + 1,
         block_offset |-> 0]
      s[n \in 0 .. len] ==
        IF n = 0 THEN s0
        ELSE IF Len(s[n - 1].buf) >= len \/ Len(s[n - 1].buf) + off >= in.size
        THEN s[n - 1]
        ELSE turn(s[n - 1])
  IN  s[len].buf

\* The bytes that the caller finds in its buffer; their number is returned.
fs_read(p, len, off) ==
  LET in == disk[path2inum(p)]
  IN  IF file_errno(p) # 0 THEN [ret |-> file_errno(p), buf |-> <<>>]
      ELSE IF off >= in.size THEN [ret |-> 0, buf |-> <<>>]
      ELSE LET buf == read_loop(in, off, len) IN [ret |-> Len(buf), buf |-> buf]

-----------------------------------------------------------------------------
(***************************************************************************)
(* The handlers of Fs5600, and what they do to the bytes.                  *)
(***************************************************************************)
ENOTCONN == 107

Ask(r) == req' = r /\ answer' = IF up' = "mounted" THEN ret' ELSE -ENOTCONN

\* The handler writes inodes and entries only.
NoData ==
  LET B == {b \in Blk : disk'[b] # disk[b]}
  IN  bytes' = [b \in DOMAIN bytes \cup UNION {0 .. c : c \in B} |->
                  IF b \in DOMAIN bytes \ B THEN bytes[b] ELSE JunkBlk]

create(p, perm, now) == fs_create(p, perm, now) /\ NoData /\ Ask(<<"create", p>>)
mkdir(p, perm, now)  == fs_mkdir(p, perm, now) /\ NoData /\ Ask(<<"mkdir", p>>)
unlink(p, now)       == fs_unlink(p, now) /\ NoData /\ Ask(<<"unlink", p>>)
rmdir(p, now)        == fs_rmdir(p, now) /\ NoData /\ Ask(<<"rmdir", p>>)
truncate(p, len)     == fs_truncate(p, len) /\ NoData /\ Ask(<<"truncate", p, len>>)
chmod(p, perm)       == fs_chmod(p, perm) /\ NoData /\ Ask(<<"chmod", p>>)
utime(p, t)          == fs_utime(p, t) /\ NoData /\ Ask(<<"utime", p>>)
rename(src, dst)     == fs_rename(src, dst) /\ NoData /\ Ask(<<"rename", src, dst>>)
mount                == fs_init /\ UNCHANGED <<bytes, req, answer>>

write(p, off, buf, now) ==
  /\ fs_write(p, off, Len(buf), now)
  /\ Ask(<<"write", p, off, buf>>)
  /\ bytes' = IF write_allowed(p, off, Len(buf))
              THEN write_loop(disk[path2inum(p)], off, buf).bytes
              ELSE bytes

Buffers == UNION {[1 .. n -> Bytes] : n \in Lengths}

BNext ==
  \/ mount
  \/ \E p \in Paths, perm \in Perms, now \in Times : create(p, perm, now)
  \/ \E p \in Paths, perm \in Perms, now \in Times : mkdir(p, perm, now)
  \/ \E p \in Paths \ {<<>>}, now \in Times : unlink(p, now)
  \/ \E p \in Paths \ {<<>>}, now \in Times : rmdir(p, now)
  \/ \E p \in Paths, len \in {0} \cup Lengths : truncate(p, len)
  \/ \E p \in Paths, perm \in Perms : chmod(p, perm)
  \/ \E p \in Paths, t \in Times : utime(p, t)
  \/ \E src, dst \in Paths : rename(src, dst)
  \/ \E p \in Paths, off \in Offsets, buf \in Buffers, now \in Times :
       write(p, off, buf, now)

BSpec == BInit /\ [][BNext]_bvars

-----------------------------------------------------------------------------
\* The contents of the files, through the inodes' pointers.
Contents(p) ==
  LET in == disk[path2inum(p)]
  IN  [k \in 1 .. in.size |->
         bytes[in.ptrs[(k - 1) \div BlockSize]][(k - 1) % BlockSize]]

Files == [p \in {q \in Paths : file_errno(q) = 0} |-> Contents(p)]

FF == INSTANCE FlatFiles WITH files <- Files

\* 639: a rename to a name of 28 letters takes what is at or below the source,
\* and at or below one neighbour, out of reach.
LongRename ==
  \E src, dst \in Paths :
    /\ req' = <<"rename", src, dst>> /\ answer' = 0
    /\ Last(dst) \in LongNames
    /\ \E lost \in Paths \ {<<>>} :
         /\ Front(lost) = Front(src)
         /\ Files' = [q \in {x \in DOMAIN Files : ~IsPrefix(src, x) /\ ~IsPrefix(lost, x)} |->
                        Files[q]]

\* Every handler has on the contents of the files the effect that FlatFiles
\* allows for the request: a write changes the bytes it names and no others,
\* in no other file, whatever the blocks it is given held before; a write that
\* a full disk breaks off spoils nothing but bytes it was to replace.  The one
\* exception is LongRename, which loses files and changes no byte of others.
ImplementsFlatFiles == FF!FFInit /\ [][FF!FFNext \/ LongRename]_FF!ffvars

\* fs_read returns the bytes of the file from the offset on, as many as were
\* asked for or as there are up to the end of the file, and never a byte that
\* nobody wrote to the file.
ReadExact ==
  \A p \in Paths, off \in Offsets, len \in Lengths :
    file_errno(p) = 0 =>
      LET want == FF!Slice(Contents(p), off, len)
      IN  /\ fs_read(p, len, off) = [ret |-> Len(want), buf |-> want]
          /\ Junk \notin Range(want)
=============================================================================
