---------------------------- MODULE FsDocumented ----------------------------
(***************************************************************************)
(* What comments of the repository say of the handlers, each as a formula. *)
(* fs5600.c does something else in every case below.                       *)
(***************************************************************************)
EXTENDS FsInvariants

\* fs5600.c:114, "ENOENT - a component of the path doesn't exist."  A name
\* that is missing from an existing directory is answered with ENOENT.
MissingIsENOENT ==
  \A p \in Paths \ {<<>>} :
    /\ Exists(Front(p)) /\ S_ISDIR(path2inum(Front(p)))
    /\ ~Exists(p)
    => fs_getattr(p).ret = -ENOENT

\* fs5600.c:66, "Allocate a free block from the disk", and misc.c:51, "Seek to
\* the *end* of the region being written, to make sure it all fits on the disk
\* image": no block past disk_size is given out.
FitsDisk == map \subseteq 0 .. DiskSize - 1

\* fs5600.c:1135, "success - return number of bytes written. (this will be
\* the same as the number requested, or else it's an error)", of write: it
\* returns, on a full disk too.
FullDiskIsReported ==
  [][\A p \in Paths, off \in Offsets, len \in Lengths, now \in Times :
       fs_write(p, off, len, now) => up' = "mounted"]_vars

\* fs5600.h:55, "char name[28]; /* with trailing NUL */".
NamesTerminated ==
  \A b \in Blk, k \in Slots : IsEntry(disk, b, k) => disk[b].ents[k].name \in Names
=============================================================================
