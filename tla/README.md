# Verification of the fs5600 file system

This directory holds TLA+ specifications of the FUSE file system in `fs5600.c`,
the TLC configurations that check them, and proofs checked by TLAPS.

## The system

`lab4fuse` mounts one image file. The kernel sends requests, FUSE calls a
handler of `fs_ops`, and the handler reads and writes whole blocks of the image.
No state is kept in memory between two requests: everything is on the disk.

| Part | State | Operations | Depends on |
|---|---|---|---|
| on-disk format (`fs5600.h`, `gen-disk.py`, `diskfmt.py`) | superblock, block map, inodes, directory blocks, data | image creation | |
| block I/O (`misc.c`) | file descriptor and its offset | `block_init`, `block_read`, `block_write` | the image file |
| block map | block 1 | `alloc_blk`, `free_blk` | block I/O |
| path translation | none | `path2inum`, `tokenise` | inodes and directory blocks |
| read-only handlers | none | `statfs`, `getattr`, `readdir`, `read` | path translation, block map |
| names | directory blocks, inodes | `create`, `mkdir`, `unlink`, `rmdir`, `rename` | path translation, block map |
| attributes and data | inodes, data blocks | `chmod`, `utime`, `truncate`, `write` | path translation, block map |
| process (`lab4fuse.c`) | mounted or not | `main`, `fs_init`, the `assert` of `block_write` | |
| tools and tests | | `read-img.py`, `test1.c`, `test2.c` | |

The parts share the image and nothing else. What makes each of them correct:

- *block map*: a block has one owner, what is in use is marked, what is marked
  is in use;
- *path translation*: an inode that has an entry has one path, the errno says
  what is wrong with the path;
- *names*: a successful request has its effect on the tree and an error has
  none; there are no links and no duplicate names;
- *data*: size, pointers and allocated blocks agree, through truncation and
  rounding; a write changes the bytes it names and no others, a read returns
  them;
- *block I/O and threads*: a call finds the block it asked for, a block is given
  to one caller;
- *process*: the end of the process in the middle of a handler leaves a
  mountable image, and what it harms is bounded.

What is hard here: the allocator meets its limit in the middle of a handler
(nobody tests its result, so the process aborts with half the work on the disk);
freed blocks are reused at once while stale pointers stay in inodes; removal
relies on an inode having one entry; sizes are rounded to blocks in four places;
a name one letter too long damages its neighbour; the process may be killed
between any two block writes; and `fuse_main`, started as the usage text says,
runs handlers in several threads over a shared file offset, an unlocked block
map and the static state of `strtok`.
`PROJECT.json` lists these hazards by line.

## Modules

| Module | Contents |
|---|---|
| `FsFormat` | constants with their assumptions, inode, entry and block contents |
| `Fs5600` | the file system: one action per handler that changes the image, one operator per handler that does not |
| `FsImage` | soundness of an image, as predicates of a block map and block contents |
| `FsInvariants` | the safety invariants of `Fs5600` |
| `FsDocumented` | what comments of the repository say, as formulas |
| `Namespace` | abstract specification: a tree of names with attributes, no blocks, and for each request the effect and the answers that the handler's comment promises |
| `FsRefinement` | the mapping from `Fs5600` to `Namespace`, with history variables for the request and its answer: the two are compared request by request; the places where the code does something else (`Deviation`, `LongRename`), each with its lines |
| `FsSteps` | the handlers of `Fs5600` block write by block write, with crashes |
| `FsCrash` | what the order of the writes guarantees; `FsSteps` implements `Fs5600` |
| `FlatFiles` | abstract specification: files as sequences of bytes, no blocks |
| `FileBytes` | `Fs5600` with the bytes of data blocks and the loops of `fs_read` and `fs_write`; implements `FlatFiles` |
| `BlockIO` | `misc.c` as system calls of several threads on one file offset |
| `FsThreads` | the calls through which threads meet: `alloc_blk`, `free_blk`, `statfs`, `strtok`, on top of `BlockIO` |
| `MCFs5600`, `MCRefinement`, `MCSteps`, `MCBytes`, `MCThreads` | symmetry, views and bounds for TLC |
| `NatLemmas` | lemmas: least elements of sets of numbers, induction over numbers |
| `FsImage_proofs` | lemmas: which changes of an image keep it sound |
| `Fs5600_proofs` | path translation, the inductive invariant, the theorems |
| `Names_proofs` | distinct names, one path for each inode, and listings, from that invariant |
| `FsCrash_proofs` | what holds between two block writes, and after a crash |
| `FsAtomic_proofs` | the block writes of a handler together are its atomic action; callers see its effect appear in one of them |
| `FileBytes_proofs` | the loops of `fs_read` and `fs_write`, and the bytes that files hold |
| `FsThreads_proofs` | undisturbed calls, and calls that do not overlap |

`Fs5600` is the centre. `Namespace` and `FlatFiles` say what callers may rely on
and `Fs5600` implements both, but for the deviations described below; `FsSteps` is the same handlers in finer steps and
implements `Fs5600`; `BlockIO` and `FsThreads` are below it and show what the
atomic handlers of `Fs5600` take for granted.

`FsImage` is apart from `FsInvariants` because it has no variables: its lemmas
speak of any two images, and are used for the image before, between and after
the steps of a handler.

### State and actions of `Fs5600`

`map` is the set of bits that are set in block 1; `disk` gives the content of
every block; `ret` is the last answer; `up` tells whether the process runs.
Blocks of the image are untyped; the model tags a content with what it was
written as (`kind`), so that following a pointer to the wrong kind of block is a
violation and not an accident that goes unseen. Pointers of an inode that were
never assigned hold `NoPtr`, which stands for stack garbage: using one as a block
number is a violation too.

Each handler is atomic, which is what the code does under one request at a time.
Its disjuncts are its early returns (`Fail`), its regular end (`Return`) and,
where the result of `alloc_blk` is not tested, the end of the process
(`Abort`), with what was written until then on the disk. The tests before the
first write are an operator of their own (`create_errno`, `rename_errno`, ...)
in the order of the code. The path walk is a recursive function on the
components of the path, one application of `walk` per turn of the loop in
`path2inum`. `fs_write` picks the blocks its loop allocates with `AllocEach`:
each call sees the bits the earlier calls have set.

Abstracted: the bytes of data blocks (they are in `FileBytes`), uid and gid,
string handling (a path is a sequence of names, `LongNames` are the names of 28
letters), `-EIO` (in `BlockIO`, and for blocks past the end of the image in
`FileBytes`). The NUL of
a 28-letter name in the last entry of a directory falls outside `dirs`; whatever
array lies behind it, its first byte is not used afterwards. Names longer than
28 letters in `rename` are outside the model.
Paths have at most `MaxDepth` components; the code has room for 11.

`fs_unlink` and `fs_rmdir` are not sent for the root: the kernel refuses that
before FUSE sees it.

### `FsSteps`: block writes and crashes

`op` holds where a handler is (`pc`) and its local variables: the copies of
inodes it read at the beginning, the loop counter, the bytes written so far. A
first step looks up the path and copies the inodes; after it there is one step
per `block_write`, in the order of the code, `alloc_blk` and `free_blk` included
since each of them writes the map. `rename`, `chmod` and `utime` write one block
and are the actions of `Fs5600`. `map0` and `disk0` keep the image as it was
before the handler, and the instance `F` is `Fs5600` on that image. So
`ImplementsFs5600` compares the whole run of a handler with its atomic action,
stale copies of inodes included.

`Crash` ends the process between any two steps. What `write()` has taken is in
the page cache and survives the process, so writes persist in the order of the
calls. A power failure, which may lose or reorder them, is not modelled: the code
never calls `fsync`, and makes no attempt to order writes against it.

`create`, `mkdir` and `write` mark blocks first and link them last, so a crash
leaks blocks at worst. `unlink`, `rmdir` and `truncate` free first: a crash
leaves an entry whose inode, or an inode whose blocks, are free. `CrashContained`
says that the damage ends there, and that repeating the removal repairs it.

Nothing makes a caller repeat an interrupted removal. If another request comes
first, it may be given the freed blocks while the entry still leads to them: when
`rmdir /d` dies after `free_blk(inode_n)`, `create /d/x` is given the block of
`/d`'s own inode, and line 817 writes the old inode back over the new one. The code
does not survive this, so no property could hold. `Take` therefore takes any request,
and the history variable `strayed` becomes true when a request follows an interrupted
removal and is not that removal. Every property of `FsCrash` speaks of the time
before that, and says so.

### `FileBytes`: the contents of files

`bytes` gives the bytes of every block that the image file has. The handlers are
those of `Fs5600`, all of them; `write` adds the loop of `fs_write` turn by turn (allocate,
read the block, change it, write it) and `fs_read` is an operator with its own
loop. A block that is freed keeps its bytes, and one that held an inode or
entries is `Junk`, so the answer shows whether the loops ever expose what was
there before. A block past the end of the image file cannot be read, and the
loop goes on with the buffer as the turn before left it, as in the code.
A rename to a name of 28 letters takes files out of reach, which `FlatFiles` does
not allow; `LongRename` says what it does to the contents instead: files below the
source and below one neighbour are lost, and no byte of any other changes.

### `BlockIO` and `FsThreads`: threads

One step is one system call (`lseek`, `read`, `write`), one turn of the code
between two of them, or one call of `strtok`. A thread calls `alloc_blk`,
`free_blk` for a block it was given, writes such a block (`put`), calls
`fs_statfs`, or splits a path. Handlers are reduced to these calls, since they
are what handlers in different threads share: the kernel locks the inodes that
a request changes, so two requests on one file or directory do not overlap. A
buffer that a failed read left unfilled is any set of bits.

## What TLC checks

All passing runs explore the whole state space of their instance. `Capacity`,
`Steps`, `Bytes` and the refinement runs use 7 or 8 bits in the block map of
which 3 or 4 are free at first, directories of one or two entries and files of
one or two blocks: every limit (map, directory, file, path depth) is reached, and
reached in the middle of `mkdir` and `write`. `NoLeak` has a larger map and stops
before it fills up.

| Run | Shows |
|---|---|
| `capacity` | `TypeOK`, `ReservedSafe`, `LinkedSound`, `Exclusive`, `SingleEntry`, `FreedDirsEmpty`, `UniqueNames`, `OnePath`, `ReaddirAgrees` at every limit, with aborts, remounts and names of 28 letters; `LeaksOnlyAtLimits`: a step leaks a block only where it fills the map, meets a full directory or enters such a name |
| `no_leak` | `NoLeak` (marked blocks are exactly the owned ones), `Accounting` (statfs agrees with stat) and `Exclusive`, with two-byte blocks and offsets and lengths on, before and after the boundaries; the first two need that the map does not fill up, that a directory has room for every name and that no name has 28 letters, since the code leaks blocks otherwise |
| `refines` | `ImplementsNamespace`: each request, renames to 28 letters included, has the effect and one of the answers that the comments promise for that same request, or is one of the seven answers of `Deviation`, which change nothing, or `LongRename`, which loses names; two levels deep, with directories of two entries and files of one block |
| `refines_attrs` | the same with two modes and two times, one level deep, files of two blocks, and length 0; the two instances are apart because TLC cannot finish one that has both |
| `steps` | all of it until a caller strays, see above. `CrashContained`: at every block write the image is sound but for what is being removed; `LeakBounded`: a crash leaks only what the request itself allocated; `ImplementsFs5600`: a request that ends has done what the atomic handler does; `ChangesAtOnce`: callers see a request's effect appear in one block write; `RequestsEnd`: every handler ends |
| `bytes` | `ImplementsFlatFiles`: every request changes the contents of files as it should, whatever the blocks held before; `ReadExact`: reads return those contents, cut at the end of the file |
| `threads` | `IsolatedCallIsAtomic`: a call that is not disturbed does what its sequential specification says, on any image, file offset and `strtok` position that earlier overlapping calls have left; `SerialIsSound`: without overlap the threads share the map safely |

`Steps` has three free blocks, so that `mkdir` and `write`
meet a full map after their first allocation, paths of two components, a
28-letter name, and files of two blocks of two bytes; offsets and lengths cover
length 0, parts of a block, and a write over a boundary. TLC goes no further than the
first state where a caller has strayed (`CONSTRAINT Repeated`): every property is
true from there on by its premise, and the model gives no meaning to an inode read
from a block that holds data by then. This cuts no behaviour that `RequestsEnd` speaks
of, since it asks for nothing once a caller has strayed. `Refines` has
offsets at the start and past the end of the file, `RefinesAttrs` one in between. `Bytes` has two-byte blocks, two byte
values, four offsets and three lengths: a request covers part of a block, a
block, parts of two blocks, or passes the largest file; the image file is one block
shorter than the map, so that the block past its end is given out. `Threads` has
two threads, which are symmetric, and two free blocks; `MayBegin` limits it to one burst of overlapping
calls (until both threads are idle again), after which any number of calls follow each
other; `MaxTokens` is the length of the array that `strtok`'s results fill.

*View.* Two states are identified when they differ only in the content of
unmarked blocks without entries, in pointers past the end of a file, and in
`ret`. No handler reads any of these before it overwrites them, and the
invariants (but for the type of `ret`, which is proved) do not look at them. Names are symmetric: no
handler compares them but for equality.

`MCSteps` also hides the request once it is over, and keeps what `map0` and
`disk0` hold only while a handler runs, when they differ from `map` and `disk`.
It is used together with a liveness property. That is sound because no guard
reads what is hidden, so that equivalent states have equivalent successors, and
because whether `Step` is enabled depends on `op` alone, which is in the view.

*Deadlock* is checked in every run; there is always a request to answer, or a
process to start.

*Fairness.* `FsSteps` assumes weak fairness of `Step`: the handler that runs takes
its next step unless the process dies. A handler takes no lock and waits for
nothing, and the kernel does not stop a process that can run. Nothing is assumed
of callers or of whoever mounts the image. `RequestsEnd` then says that the
loops end. The other specifications have no fairness. In `FsThreads` every call but
the splitting of paths is straight-line code, so there is nothing to show; and the
loop around `strtok(NULL)` goes on as long as other threads put strings in its way.

### Where the code and its comments differ

Five runs end in a violation. Each checks one sentence of a comment, quoted
beside the formula and in `PROJECT.json`: a missing name in a subdirectory gives
ENOTDIR (`MissingIsENOENT`); blocks past the end of the disk are given out
(`FitsDisk`); a full block map ends the process in write (`FullDiskIsReported`);
rename stores names without a NUL (`NamesTerminated`; longer names than callers
choose may reach it from libfuse, which renames files that are removed while
open); two threads in `alloc_blk` get the same block (`OneOwner`).

Behind `OneOwner` are three races that a reader should know together: the map is
read, changed and written back without a lock; `block_read` and `block_write`
seek and transfer in separate calls on one offset, so a transfer may go to the
block that another thread has sought, the superblock included; and `strtok` keeps
its position in static memory, so two paths may be mixed. The threads are there by
default, and `main` refuses any number of arguments but the three of the documented usage
(`argc != 4`, `lab4fuse.c`), which leaves no room for FUSE's `-s`. `SerialIsSound`
applies only as long as calls happen not to overlap; nothing in the code sees to it.

`FsRefinement` lists where a request is answered otherwise than its comment says.
`ImplementsNamespace` allows for these and no others; without any one of them the run
fails:

- a full directory gives EINVAL (fs5600.c:811 and 936, against lines 694-695);
- a full block map ends the process in `create` and `mkdir`, and in `write` (two
  disjuncts); the caller sees ENOTCONN;
- a write past the end of the file returns 0 (line 1163, against line 1139);
- rename of a missing source in a subdirectory gives EINVAL (line 586, against
  line 573);
- utime refuses directories (line 1291, against line 1274);
- rmdir of a directory in which a path finds nothing gives ENOTEMPTY when a 28-letter
  entry is left in it (line 1098);
- a rename to a name of 28 letters succeeds, and loses the source and at most one
  neighbour with all that is below them (`LongRename`, line 639).

That the errno of a path is ENOENT or ENOTDIR by the comments of `path2inum`, and
which of the two the code picks, is left open in `Namespace`, since
`MissingIsENOENT` is about it. One more difference is plain from the code and has no
run: `st_atim` is the creation time (line 299, against line 278).

## What is proved

For every value of the constants that satisfies the assumptions of `FsFormat`
(sizes are positive, the map covers the disk, the root's block is an unreserved
block of the disk, requests are natural numbers):

| Theorem | Statement |
|---|---|
| `TypeCorrect` | `Spec => []TypeOK` |
| `ReservedKept` | `Spec => []ReservedSafe` |
| `NoDangling` | `Spec => []LinkedSound` |
| `NoSharedBlocks` | `Spec => []Exclusive` |
| `NoHardLinks` | `Spec => []SingleEntry` |
| `NothingLost` | `Spec => []FreedDirsEmpty` |
| `LeaksAtLimits` | `Spec => LeaksOnlyAtLimits` |
| `NothingLeaks` | `Spec /\ [][~AtLimit]_vars => []NoLeak` |
| `NamesDistinct` | `Spec => []UniqueNames` |
| `PathsUnique` | `Spec => []OnePath` |
| `ListingAgrees` | `Spec => []ReaddirAgrees` |
| `CrashesContained` | `SSpec => []CrashContained` |
| `LeaksBounded` | `SSpec => []LeakBounded` |
| `StepsImplement` | `SSpec => ImplementsFs5600` |
| `ChangeIsAtomic` | `SSpec => ChangesAtOnce` |
| `ReadsExact` | `BSpec => []ReadExact` |

and, for every number of threads and bits, from the assumptions of `BlockIO` and
`FsThreads` (the map has at least its reserved bits; the paths that are split are
sequences; an unfilled buffer is told apart from a filled one):

| Theorem | Statement |
|---|---|
| `ThreadsTypes` | `TSpec => []ThreadsTypeOK` |
| `IsolatedCalls` | `TSpec => []IsolatedCallIsAtomic` |
| `SerialSafety` | `TSpec => []SerialIsSound` |

### Atomic handlers

The inductive invariant is `IInv`, which is `TypeOK` together with
`SoundImage(map, disk)`, the conjunction of the first six invariants. None of
them is inductive alone. That `unlink` leaves no dangling entry needs that the
inode had one entry (`OneEntry`) and that its blocks belong to nobody else
(`NoSharing`); that a fresh block is not in use needs that everything in use is
marked (`AllSound`); that `rmdir` orphans nothing needs that an unmarked
directory block is empty (`EntriesMarked`); and even the type invariant needs that
`path2inum` leads to an inode.

The argument has three layers:

1. `FsImage_proofs`: the changes that keep an image sound. `Fresh` (write
   unmarked blocks), `Attach` (add an entry for an inode that has none),
   `Detach` (remove an entry and free what its inode owns), `Relabel` (rename or
   drop entries), `Touch` (change attributes), `Cut` (empty a file) and `Extend`
   (add blocks to a file); and, for images in the middle of a handler, `Widen`
   (mark more blocks), `Unmark` (unmark blocks that serve nobody), `WriteSpare`
   (write such blocks) and `NewLoose` (they form an inode that can be attached).
   No variable occurs here.
2. `Fs5600_proofs`, path translation: the recursive function of `path2inum`
   exists (`WalkExists`), everything it visits is linked (`SeenAll`), and the
   result for a path is one more turn from the result for its parent (`Parent`),
   so a path that exists is an entry of a directory that exists (`Found`) and a
   short name that is missing from a directory has no entry (`NotFound`). These
   lemmas ask for `Walkable` only, soundness of the disk with every bit set:
   lookups do not read the map, so they hold while a removal has freed blocks.
3. One lemma per action (`CreateKeeps`, ..., `WriteKeeps`): the image the handler
   leaves, at its regular end and at an abort, is reached by changes of layer 1.
   `WritePtrs` is the arithmetic of `fs_write`: the pointers it assigns are
   exactly those the new size adds.

`LeaksAtLimits` is proved beside it, handler by handler. Where no limit is met
the image a handler leaves marks exactly what is in use if the image before did:
an `Attach` brings in the blocks that were marked for it, a `Detach` takes out
the blocks that were freed, and `WritePtrs` counts the blocks of a write on both
sides. An abort is a limit because the map is then full, which is the case when
`AllocEach` runs out of bits (`OutOfBlocks`). `NothingLeaks` follows by induction
from the image of `gen-disk.py`.

`NamesDistinct` rests on `IInv` and the path lemmas: `create`, `mkdir` and `rename`
enter a name that `path2inum` has just failed to find, and by `NotFound` a short
name that is not found has no entry. Names of 28 letters are never found and can
be entered twice, so `UniqueNames` speaks of the names that fit an entry.
`ListingAgrees` follows from it: `readdir` visits all entries and a lookup the
first with the name, and a name that fits an entry has only one.

`PathsUnique` needs that the entries form a tree. `NamesSound` adds to `IInv` that
every inode with an entry hangs on a chain of entries from the root (`Rooted`)
with at most `MaxDepth` links, unless a name of 28 letters has been entered, which
may cut a chain. That is inductive since an entry is only added for an inode that
has none, under a directory that a path leads to (`AttachNamed`); only entries
without anything below them are removed (`DetachNamed`); and `rename` keeps a
chain where it is (`RelabelNamed`). The two halves of `OnePath` are then inductions
over the length: a chain spells a path (`SomePath`), and two paths to one inode end
in the one entry it has, so their parents are one inode too (`NoTwoPaths`).

### Block writes and crashes

The inductive invariant of `FsSteps` is `strayed \/ (StepInv /\ KeepInv)`: `strayed`
stays once it is true (`StrayedStays`), and until then a request after an
interrupted removal is that removal. `StepInv` has one
part for each stage of a handler (`Creating`, `Freeing`, `Clearing`, `Stamping`,
`Writing`, and `Resting` between requests), because what is on the disk is not
enough: the next block write comes from local variables.

- In `create`, `mkdir` and `write` the image is sound after every block write. The
  blocks that the handler holds in its variables are marked, belong to nobody
  (`Spare`) and already hold what the inode will say of them; so the write that
  makes them reachable is an `Attach` or an `Extend`. In the loop of `fs_write`
  the invariant also says how far it is (`Position`), that no new pointer was
  assigned twice, and that a pointer at or past `op.q` is still the one on the disk.
- In `unlink`, `rmdir` and `truncate` the image is `Halfway`: it would be sound if
  the blocks of the one inode being removed were still marked. The checks of the
  removal still pass (they do not read the map), so after a crash the repeated
  request finds the same inode and frees the same blocks. The copies of inodes
  are what is on the disk, so the freed blocks are exactly what the inode owns and
  the write of the entry is a `Detach`, that of the inode a `Cut`.
- `CrashContained` follows: nobody shares blocks with the inode being removed
  and its blocks hold no entry, so everything else is sound with the map as it is.

`KeepInv` says that what was in use when the handler began still is, except what a
removal has freed. Each step either frees blocks while they are in use or takes
entries away after their blocks are free, never the other way round, which is why
no block is left marked without an owner. `LeakBounded` is a consequence.

`StepsImplement` needs to know where the handler came from. The invariant `Past`
(`PastHolds`) adds two things to the above for every stage of a handler: how the
image and the local variables have come from `map0` and `disk0`, the image that the
handler found (`MakingAt`, `RemovalAt`, `WriteAt`), and what the checks at its
beginning said of that image (`MakingOf`, `RemovalOf`, `WriteOf`). Every step is then
one of two kinds: `Unseen`, which leaves `map0`, `disk0` and the answer as they are
and keeps `Past`, or `Whole`, which ends the handler with what the atomic action
does to `map0` and `disk0`. The work is in `fs_write`, which allocates block by
block where `Fs5600` chooses all the blocks at once: the blocks it was given turn by
turn are a choice the atomic handler has (`GivenEach`), the pointers it assigned are
the ones the atomic handler fills (`AllAssigned`), and it finds the map full only if
the pointers it needs outnumber the free bits it found (`TooFew`). `Past` was an
invariant of the `steps` instance in TLC before it was proved.

`ChangeIsAtomic` rests on `Before`: until the block write that counts (the entry's,
or the inode's in `truncate` and `write`), callers see what was there before the
request. Two disks that agree on every linked inode and on the entries of every
linked directory (`Alike`) give the same answer to every path (`SameFound`, an
induction along the path), so writes to blocks that serve nobody and the stamp on a
directory do not show.

The four theorems say nothing once a caller has strayed, and could not: `Halfway` does
not survive an allocation, which may take the very blocks that the entry still
leads to.

### The bytes of files

`ReadsExact` also assumes that `Junk` is no byte of a caller. Its inductive invariant is
`IInv /\ FilesWritten`: every byte below the size of a linked file is in the image and
was written by a caller. TLC had checked it on the `bytes` instance. `ReadExact` itself
says too little to be inductive: it looks at the paths and offsets of requests only.

- The loops are recursive functions of the number of turns; that they exist is
  `ReadExists` and `WriteExists`. What holds after every turn is then shown by
  induction over that number: `ReadSoFar` (the buffer is the file from the offset on),
  `WPos` (how far a write is), `WSafe` (each byte of a marked block is what it was or
  one of the caller's, so a write that is broken off spoils no file), and `WExact`
  (if the blocks suffice, the bytes copied so far are where the new inode leads).
- A write is `WSafe` for every other file, because the blocks it is given are unmarked
  and `IInv` says that files share none; in its own file every byte below the new size
  is an old one or is in the request, because a write past the end is refused, and
  `WExact` covers the latter (`WriteFills`).
- Every other handler, `chmod` and `utime` included, leaves each file that is not empty with its inode and its blocks
  (`QuietStays`), and writes no block that holds data of such a file (`StaysWritten`).

### Threads

`IsolatedCalls` rests on `Undisturbed`: while no other thread has taken a step, the
image is what the call found, changed by its own writes, and the offset is where
its last `lseek` put it (`Progress`). Nothing is assumed of the image found, which
an earlier burst of overlapping calls may have left in any state of its type.
`SerialSafety` rests on `Serial`: while calls have not overlapped, the map on the
disk is the union of what the threads own and of the reserved bits, but for the
call between its write of the map and its return, whose buffer is on the disk.
`ThreadsTypes` is needed for both: a buffer is written only after it was filled.

### Only model-checked

`Accounting` and the refinements `ImplementsNamespace` and `ImplementsFlatFiles`.
They add up or compare all paths or all files at once and need induction on data,
which is out of the prover's reach in general form (specific inductions, as in
`WalkExists` and `SomePath`, are done over sets of numbers). `RequestsEnd` is
liveness under fairness, which is out of the prover's reach altogether.

## Plan

Done: all modules of the table above, their runs, and the theorems.

## Not modelled

- *The bytes of the block map.* The map is a set of bits; `bit_set`, `bit_clear`
  and `bit_test` are one expression each.
- *Whole handlers in several threads.* `FsThreads` has the calls they share;
  whole handlers at the granularity of system calls are too large for TLC, and
  what they would add is the consequence of races that `OneOwner` already shows.
- *Argument parsing* in `main` and `block_init`: it ends the process before the
  image is touched, or does not.
- *Power failure*, see `FsSteps`.
- *uid and gid*, which are stored and reported and decide nothing.
- *The image tools*: that `read-img.py` finds nothing to complain about is
  `LinkedSound`, the image that `gen-disk.py` builds is `Init`; their printing
  and formatting is left out.
- *The tests* `test1.c` and `test2.c` call the handlers one after the other; they
  were read for what they expect.
