------------------------------ MODULE MCSteps -------------------------------
(***************************************************************************)
(* FsCrash for TLC.                                                        *)
(***************************************************************************)
EXTENDS FsCrash

\* States that differ only in what no handler reads again are one state: the
\* content of blocks that are neither marked nor in use by a removal, pointers
\* past the end of a file, ret, and a request that is over.
\* No guard depends on those, and neither does the fairness of Step, which is
\* enabled exactly when op is not Idle.
LivePtrs(in) == [q \in PtrIdx |-> IF q < nblocks(in) THEN in.ptrs[q] ELSE NoPtr]
LiveBlock(c) == IF c.kind = "inode" THEN [c EXCEPT !.ptrs = LivePtrs(c)] ELSE c
LiveBlocks(m, d) ==
  m \cup {b \in Blk : \E k \in Slots : IsEntry(d, b, k)}
    \cup InUse(d)
LiveImage(m, d) == [b \in LiveBlocks(m, d) |-> LiveBlock(d[b])]

\* Only fs_write follows pointers past the end, those it has just set.
LiveOp ==
  IF op = Idle \/ req[1] = "write" THEN op
  ELSE [op EXCEPT !.node = LiveBlock(@), !.pnode = LiveBlock(@)]

View ==
  <<map, LiveImage(map, disk), up, LiveOp, redo, strayed,
    IF op = Idle /\ ~redo THEN <<>> ELSE req,
    IF op = Idle THEN <<>> ELSE <<map0, LiveImage(map0, disk0)>> >>

\* TLC goes no further once a request other than the interrupted removal was
\* taken: a handler may then find an inode in a block that was given to a
\* file as data, and the model gives such an inode no meaning.
Repeated == ~strayed
=============================================================================
