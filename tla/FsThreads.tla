----------------------------- MODULE FsThreads ------------------------------
(***************************************************************************)
(* What the handlers of fs5600.c share when fuse_main runs them in several *)
(* threads: the block map, through alloc_blk, free_blk and fs_statfs, the  *)
(* file offset of BlockIO, and the static position of strtok.  Handlers    *)
(* are left out but for these calls, and for the writing of a block that   *)
(* alloc_blk has given to its caller.  (What belongs to one inode is not   *)
(* shared: the kernel locks the inodes that a request changes.)            *)
(***************************************************************************)
EXTENDS BlockIO, SequencesExt

CONSTANTS
  Split,       \* the paths that are split, as sequences of names
  MaxTokens,   \* elements of the array paths
  Uninit       \* a buffer that was not filled

Components == UNION {Range(p) : p \in Split}

ASSUME SplitAssumption == Split \subseteq Seq(Components)

\* Uninit stands for stack garbage; it is told apart from what a read fills in.
ASSUME UninitAssumption == \A B \in SUBSET Bits : Uninit # B

VARIABLES
  saved,     \* the rest of the string that strtok works on
  owns,      \* per thread: the blocks that alloc_blk gave it
  snap,      \* history: the image when the call began, until another thread
             \* takes a step
  overlap    \* history: two calls have overlapped

tvars == <<img, off, call, saved, owns, snap, overlap>>

Idle == [h |-> "none", pc |-> "idle"]
None == <<>>

TInit ==
  /\ IOInit
  /\ call = [t \in Threads |-> Idle]
  /\ saved = <<>>
  /\ owns = [t \in Threads |-> {}]
  /\ snap = [t \in Threads |-> None]
  /\ overlap = FALSE

InCall(t) == call[t] # Idle

\* Bound: calls overlap in one burst.  Once two have, a call begins only when
\* no other runs, on whatever image the burst has left.
MayBegin(t) == ~InCall(t) /\ (overlap => \A u \in Threads : ~InCall(u))

\* The local variables: arg is the block or path in question, buf the buffer
\* of block_read and block_write, res what is returned.
Begin(t, h, pc, arg, lba, buf) ==
  /\ MayBegin(t)
  /\ call' = [call EXCEPT ![t] = [h |-> h, pc |-> pc, arg |-> arg, lba |-> lba,
                                  buf |-> buf, err |-> 0, res |-> 0,
                                  tokens |-> <<>>]]
  /\ snap' = [snap EXCEPT ![t] = img]
  /\ UNCHANGED <<img, off, saved, owns, overlap>>

\* Every other step of t disturbs the calls of the others.
Disturb(t) ==
  /\ snap' = [u \in Threads |-> IF u = t THEN snap[t] ELSE None]
  /\ overlap' = (overlap \/ \E u \in Threads \ {t} : InCall(u))

Return(t, r) == call' = [call EXCEPT ![t].res = r, ![t].pc = "return"]

\* block_write of buf to block lba comes next.
WriteNext(t, lba, buf) ==
  call' = [call EXCEPT ![t].lba = lba, ![t].buf = buf, ![t].pc = "wend"]

\* The bits that thread t sees: stack garbage when block_read failed, which
\* none of the callers below tests.
Seen(t) == IF call[t].buf = Uninit THEN SUBSET Bits ELSE {call[t].buf}

-----------------------------------------------------------------------------
(***************************************************************************)
(* alloc_blk, free_blk, and a block_write by the owner of a block.         *)
(***************************************************************************)
ENOSPC == 28

alloc_begin(t) == Begin(t, "alloc_blk", "rseek", 0, 1, Uninit)

free_begin(t, b) == b \in owns[t] /\ Begin(t, "free_blk", "rseek", b, 1, Uninit)

put_begin(t, b) == b \in owns[t] /\ Begin(t, "put", "wend", b, b, {b})

free_bits(m) == (3 .. NumBits - 1) \ m

\* The map is read: look for a clear bit, and write the map with the bit set.
alloc_scan(t) ==
  /\ At(t, "read_done") /\ call[t].h = "alloc_blk"
  /\ \E m \in Seen(t) :
       \/ free_bits(m) = {} /\ Return(t, -ENOSPC)
       \/ /\ free_bits(m) # {}
          /\ LET i == Min(free_bits(m))
             IN  call' = [call EXCEPT ![t].arg = i, ![t].buf = m \cup {i},
                                      ![t].pc = "wend"]
  /\ UNCHANGED <<img, off, owns>>

\* Mutation: the bit below is cleared.
free_clear_below(t) ==
  /\ At(t, "read_done") /\ call[t].h = "free_blk"
  /\ \E m \in Seen(t) : WriteNext(t, 1, m \ {call[t].arg - 1})
  /\ UNCHANGED <<img, off, owns>>

free_clear(t) ==
  /\ At(t, "read_done") /\ call[t].h = "free_blk"
  /\ \E m \in Seen(t) : WriteNext(t, 1, m \ {call[t].arg})
  /\ UNCHANGED <<img, off, owns>>

\* The map, or the owner's block, is written.
written(t) ==
  /\ At(t, "write_done")
  /\ Return(t, call[t].arg)
  /\ owns' = [owns EXCEPT ![t] = CASE call[t].h = "alloc_blk" -> @ \cup {call[t].arg}
                                   [] call[t].h = "free_blk"  -> @ \ {call[t].arg}
                                   [] OTHER                   -> @]
  /\ UNCHANGED <<img, off>>

-----------------------------------------------------------------------------
(***************************************************************************)
(* fs_statfs: the superblock, then the map.  The result is used_blocks.    *)
(***************************************************************************)
EOPNOTSUPP == 95

statfs_begin(t) == Begin(t, "statfs", "rseek", 0, 0, Uninit)

statfs_next(t) ==
  /\ At(t, "read_done") /\ call[t].h = "statfs"
  /\ \/ call[t].err # 0 /\ Return(t, -EOPNOTSUPP)
     \/ /\ call[t].err = 0 /\ call[t].lba = 0
        /\ call' = [call EXCEPT ![t].lba = 1, ![t].pc = "rseek"]
     \/ /\ call[t].err = 0 /\ call[t].lba = 1
        /\ Return(t, Cardinality(call[t].buf \cap 2 .. NumBits - 1))
  /\ UNCHANGED <<img, off, owns>>

-----------------------------------------------------------------------------
(***************************************************************************)
(* The splitting of a path: strtok on the path, then strtok(NULL) until it *)
(* returns NULL.                                                           *)
(***************************************************************************)
split_begin(t, p) == Begin(t, "split", "strtok", p, 0, Uninit)

\* strtok on a string with components s
strtok(t, s, pc) ==
  /\ saved' = IF s = <<>> THEN <<>> ELSE Tail(s)
  /\ \/ s = <<>> /\ Return(t, 0)
     \/ /\ s # <<>>
        /\ Len(call[t].tokens) < MaxTokens
        /\ call' = [call EXCEPT ![t].tokens = Append(@, Head(s)), ![t].pc = pc]

strtok_first(t) == At(t, "strtok") /\ strtok(t, call[t].arg, "strtok_null")

strtok_null(t) == At(t, "strtok_null") /\ strtok(t, saved, "strtok_null")

-----------------------------------------------------------------------------
\* The caller has the result (external: the rest of the handler).
leave(t) == At(t, "return") /\ call' = [call EXCEPT ![t] = Idle]

Enter(t) ==
  \/ alloc_begin(t)
  \/ \E b \in Bits : free_begin(t, b)
  \/ \E b \in Bits : put_begin(t, b)
  \/ statfs_begin(t)
  \/ \E p \in Split : split_begin(t, p)

TStep(t) ==
  /\ Disturb(t)
  /\ \/ IOStep(t) /\ UNCHANGED <<saved, owns>>
     \/ alloc_scan(t) /\ UNCHANGED saved
     \/ free_clear(t) /\ UNCHANGED saved
     \/ written(t) /\ UNCHANGED saved
     \/ statfs_next(t) /\ UNCHANGED saved
     \/ strtok_first(t) /\ UNCHANGED <<img, off, owns>>
     \/ strtok_null(t) /\ UNCHANGED <<img, off, owns>>
     \/ leave(t) /\ UNCHANGED <<img, off, saved, owns>>

TNext == \E t \in Threads : Enter(t) \/ TStep(t)

TSpec == TInit /\ [][TNext]_tvars

-----------------------------------------------------------------------------
\* A call that no other thread disturbs has the effect, and the result, of
\* its sequential specification, whatever earlier overlapping calls have done
\* to the image and to the file offset: every call seeks before it transfers
\* and strtok is given the string first.
IsolatedCallIsAtomic ==
  \A t \in Threads :
    At(t, "return") /\ snap[t] # None =>
      LET c == call[t]
          m == snap[t][1]
      IN  CASE c.h = "alloc_blk" ->
                 IF Bits \ (m \cup {0, 1, 2}) = {} THEN c.res = -ENOSPC /\ img = snap[t]
                 ELSE /\ c.res \in Bits \ (m \cup {0, 1, 2})
                      /\ img = [snap[t] EXCEPT ![1] = m \cup {c.res}]
            [] c.h = "free_blk" -> img = [snap[t] EXCEPT ![1] = m \ {c.arg}]
            [] c.h = "put"      -> img = [snap[t] EXCEPT ![c.arg] = {c.arg}]
            [] c.h = "statfs"   -> c.res = Cardinality(m \ {0, 1}) /\ img = snap[t]
            [] c.h = "split"    -> c.tokens = c.arg

\* As long as calls do not overlap, a block has one owner and is marked, a
\* block that was written holds what its owner wrote, and the reserved bits and
\* the superblock stay, however the calls of the threads follow each other.
SerialIsSound ==
  ~overlap =>
    /\ \A t, u \in Threads : t # u => owns[t] \cap owns[u] = {}
    /\ (\A t \in Threads : ~InCall(t)) =>
         img[1] = {0, 1, 2} \cup UNION {owns[t] : t \in Threads}
    /\ \A b \in Bits \ {0, 1} : img[b] \in {{}, {b}}
    /\ img[0] = SuperBits

\* fs5600.c:66, "Allocate a free block from the disk", and fs5600.c:68,
\* "success - return free block number": no block is given to two callers.
OneOwner == \A t, u \in Threads : t # u => owns[t] \cap owns[u] = {}
=============================================================================
