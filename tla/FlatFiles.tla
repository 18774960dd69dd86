----------------------------- MODULE FlatFiles ------------------------------
(***************************************************************************)
(* What the file system promises about the contents of files: a file is a  *)
(* sequence of bytes under a path.  There are no blocks here.              *)
(***************************************************************************)
EXTENDS FsFormat

CONSTANT Bytes     \* the values of a byte that callers write

VARIABLES
  files,    \* a function from the paths of files to their contents
  req,      \* the last request: its name and its arguments
  answer    \* the answer to it

ffvars == <<files, req, answer>>

ENOTCONN == 107

\* What a caller can ask to be written.
Buffers == UNION {[1 .. n -> Bytes] : n \in Lengths}

FFInit == files = <<>> /\ req = <<"none">> /\ answer = 0

Has(p) == p \in DOMAIN files

\* s with the bytes of buf from offset off on.
Overwrite(s, off, buf) ==
  [k \in 1 .. Max({Len(s), off + Len(buf)}) |->
     IF k \in off + 1 .. off + Len(buf) THEN buf[k - off] ELSE s[k]]

\* The bytes of s from offset off on, at most len of them.
Slice(s, off, len) == SubSeq(s, off + 1, Min({off + len, Len(s)}))

-----------------------------------------------------------------------------
Same == files' = files

Create(p) ==
  \/ Same /\ answer' # 0
  \/ /\ ~Has(p) /\ answer' = 0
     /\ files' = [q \in DOMAIN files \cup {p} |-> IF q = p THEN <<>> ELSE files[q]]

Unlink(p) ==
  \/ Same /\ answer' # 0
  \/ /\ Has(p) /\ answer' = 0
     /\ files' = [q \in DOMAIN files \ {p} |-> files[q]]

\* The files at or below src move to the same place below dst.
Rebase(q, src, dst) ==
  IF IsPrefix(src, q) THEN dst \o SubSeq(q, Len(src) + 1, Len(q)) ELSE q

Rename(src, dst) ==
  \/ Same /\ answer' # 0
  \/ /\ answer' = 0
     /\ files' = [q \in {Rebase(x, src, dst) : x \in DOMAIN files} |->
                    files[Rebase(q, dst, src)]]

\* Only to length 0.
Truncate(p, len) ==
  \/ Same /\ answer' # 0
  \/ len = 0 /\ Has(p) /\ files' = [files EXCEPT ![p] = <<>>] /\ answer' = 0

\* A write is refused, done, or broken off with the file system gone.  In the
\* last case a first part of the bytes may have replaced bytes that were there;
\* the file has not become longer.
Write(p, off, buf) ==
  \/ Same /\ answer' <= 0 /\ answer' # -ENOTCONN
  \/ /\ Has(p) /\ off <= Len(files[p])
     /\ answer' = Len(buf)
     /\ files' = [files EXCEPT ![p] = Overwrite(@, off, buf)]
  \/ /\ Has(p) /\ off <= Len(files[p])
     /\ answer' = -ENOTCONN
     /\ \E n \in 0 .. Len(buf) :
          files' = [files EXCEPT ![p] = SubSeq(Overwrite(@, off, SubSeq(buf, 1, n)),
                                               1, Len(@))]

FFNext ==
  \/ \E p \in Paths :
       \/ req' = <<"create", p>> /\ Create(p)
       \/ req' = <<"mkdir", p>> /\ Same
       \/ req' = <<"unlink", p>> /\ Unlink(p)
       \/ req' = <<"rmdir", p>> /\ Same
       \/ req' = <<"chmod", p>> /\ Same
       \/ req' = <<"utime", p>> /\ Same
  \/ \E p \in Paths, len \in {0} \cup Lengths :
       req' = <<"truncate", p, len>> /\ Truncate(p, len)
  \/ \E src, dst \in Paths : req' = <<"rename", src, dst>> /\ Rename(src, dst)
  \/ \E p \in Paths, off \in Offsets, buf \in Buffers :
       req' = <<"write", p, off, buf>> /\ Write(p, off, buf)

FFSpec == FFInit /\ [][FFNext]_ffvars
=============================================================================
