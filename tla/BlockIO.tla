------------------------------ MODULE BlockIO -------------------------------
(***************************************************************************)
(* misc.c as several threads use it at once: block_read and block_write as *)
(* the system calls they make on the one file descriptor disk_fd, whose    *)
(* offset all threads share.  Nothing in misc.c or fs5600.c takes a lock.  *)
(*                                                                         *)
(* Every block is a set of bits here, so that a thread that reads another  *)
(* block than it meant to finds bits to work with.                         *)
(***************************************************************************)
EXTENDS Integers, FiniteSets, Sequences

CONSTANTS
  Threads,     \* the threads of fuse_main
  NumBits,     \* bits in a block, and blocks in the image
  SuperBits    \* the superblock

ASSUME BitsAssumption ==
  NumBits \in Nat /\ NumBits > 3 /\ SuperBits \subseteq 0 .. NumBits - 1

VARIABLES
  img,    \* the image file: a function from 0 .. n to the bits of a block
  off,    \* the file offset of disk_fd, in blocks
  call    \* per thread: the call it is in, and where

Bits == 0 .. NumBits - 1
EIO  == 5

\* The map of an image with a root directory; its other blocks are zeros.
IOInit ==
  /\ img = [b \in Bits |-> CASE b = 0 -> SuperBits
                             [] b = 1 -> {0, 1, 2}
                             [] OTHER -> {}]
  /\ off = 0

At(t, pc) == call[t].pc = pc

\* The next step of thread t is at pc.
Goto(t, pc) == call' = [call EXCEPT ![t].pc = pc]

(***************************************************************************)
(* block_read(buf, lba, 1).  A read at the end of the file returns too     *)
(* few bytes, and the buffer keeps what it held.                           *)
(***************************************************************************)
read_lseek(t) ==
  At(t, "rseek") /\ off' = call[t].lba /\ Goto(t, "read") /\ UNCHANGED img

read_read(t) ==
  /\ At(t, "read")
  /\ \/ /\ off \in DOMAIN img
        /\ off' = off + 1
        /\ call' = [call EXCEPT ![t].buf = img[off], ![t].err = 0, ![t].pc = "read_done"]
     \/ /\ off \notin DOMAIN img
        /\ off' = off
        /\ call' = [call EXCEPT ![t].err = -EIO, ![t].pc = "read_done"]
  /\ UNCHANGED img

(***************************************************************************)
(* block_write(buf, lba, 1), for lba > 0.                                  *)
(***************************************************************************)
write_lseek_end(t) ==
  At(t, "wend") /\ off' = call[t].lba + 1 /\ Goto(t, "wseek") /\ UNCHANGED img

\* Mutation: no second lseek.
write_lseek_none(t) ==
  At(t, "wseek") /\ off' = off /\ Goto(t, "write") /\ UNCHANGED img

write_lseek(t) ==
  At(t, "wseek") /\ off' = call[t].lba /\ Goto(t, "write") /\ UNCHANGED img

\* A write at the end of the file makes it longer.
write_write(t) ==
  /\ At(t, "write")
  /\ img' = [b \in DOMAIN img \cup {off} |-> IF b = off THEN call[t].buf ELSE img[b]]
  /\ off' = off + 1
  /\ Goto(t, "write_done")

IOStep(t) ==
  \/ read_lseek(t)
  \/ read_read(t)
  \/ write_lseek_end(t)
  \/ write_lseek(t)
  \/ write_write(t)
=============================================================================
