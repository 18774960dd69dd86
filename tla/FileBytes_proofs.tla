-------------------------- MODULE FileBytes_proofs --------------------------
(***************************************************************************)
(* Theorems about FileBytes, for every value of the constants: fs_read     *)
(* returns the bytes of the file, and nothing that nobody wrote to it.     *)
(***************************************************************************)
EXTENDS FileBytes, Fs5600_proofs

(***************************************************************************)
(* Positions: a block's number and an offset in the block.                 *)
(***************************************************************************)
LEMMA Position ==
  ASSUME NEW q \in Nat, NEW o \in InBlock
  PROVE  /\ q * BlockSize + o \in Nat
         /\ (q * BlockSize + o) \div BlockSize = q
         /\ (q * BlockSize + o) % BlockSize = o
<1> DEFINE x == q * BlockSize + o
           d == x \div BlockSize
<1>1. BlockSize \in Nat \ {0} /\ o \in Nat /\ o < BlockSize
  BY SizesAssumption DEF InBlock
<1>2. q * BlockSize \in Nat /\ x \in Nat
  BY <1>1
<1>3. d \in Nat /\ d * BlockSize <= x /\ x < d * BlockSize + BlockSize
  BY <1>1, <1>2, DivFacts
<1>4. d = q
  <2> HIDE DEF d
  <2>1. d * BlockSize \in Int
    BY <1>1, <1>3
  <2>2. d * BlockSize < q * BlockSize + BlockSize
    BY <1>1, <1>2, <1>3, <2>1
  <2>3. q * BlockSize < d * BlockSize + BlockSize
    BY <1>1, <1>2, <1>3, <2>1
  <2>. QED BY <1>1, <1>3, <2>2, <2>3, LeQuotient
<1>5. x % BlockSize = x - BlockSize * d
  BY <1>1, <1>2
<1>. QED BY <1>1, <1>2, <1>4, <1>5

LEMMA PositionOf ==
  ASSUME NEW k \in Nat
  PROVE  /\ k \div BlockSize \in Nat /\ k % BlockSize \in InBlock
         /\ k = (k \div BlockSize) * BlockSize + (k % BlockSize)
<1>1. BlockSize \in Nat \ {0}
  BY SizesAssumption
<1>2. k % BlockSize \in 0 .. BlockSize - 1
  BY <1>1
<1>3. k = BlockSize * (k \div BlockSize) + (k % BlockSize)
  BY <1>1
<1>. QED BY <1>1, <1>2, <1>3, DivFacts DEF InBlock

LEMMA MinLeast ==
  ASSUME NEW T, T \subseteq Nat, T # {}
  PROVE  Min(T) \in T /\ \A y \in T : Min(T) <= y
BY LeastNat DEF Min

-----------------------------------------------------------------------------
(***************************************************************************)
(* The bytes of the file with inode in.                                    *)
(***************************************************************************)
ByteAt(in, k) == bytes[in.ptrs[k \div BlockSize]][k % BlockSize]

\* Every byte of the file is in the image, and a caller wrote it.
HasBytes(in) ==
  \A k \in 0 .. in.size - 1 :
    in.ptrs[k \div BlockSize] \in DOMAIN bytes /\ ByteAt(in, k) \in Bytes

-----------------------------------------------------------------------------
(***************************************************************************)
(* The loop of fs_read.  Its recursive function exists, so each turn is    *)
(* ReadNext applied to what the turn before left.                          *)
(***************************************************************************)
ReadStart(off) ==
  [buf |-> <<>>, block_num |-> off \div BlockSize, block_offset |-> off % BlockSize]

ReadTurn(in, off, len, s) ==
  [buf |-> s.buf \o
           [k \in 1 .. read_length(in, off, len, s) |->
              bytes[in.ptrs[s.block_num]][s.block_offset + k - 1]],
   block_num |-> s.block_num + 1,
   block_offset |-> 0]

ReadNext(in, off, len, s) ==
  IF Len(s.buf) >= len \/ Len(s.buf) + off >= in.size THEN s
  ELSE ReadTurn(in, off, len, s)

IsRead(in, off, len, N, s) ==
  s = [n \in 0 .. N |-> IF n = 0 THEN ReadStart(off)
                        ELSE ReadNext(in, off, len, s[n - 1])]

LEMMA ReadExists ==
  ASSUME NEW in, NEW off, NEW len, NEW N \in Nat
  PROVE  \E s : IsRead(in, off, len, N, s)
<1> DEFINE T == {m \in Nat : \E s : IsRead(in, off, len, m, s)}
<1>1. 0 \in T
  <2> DEFINE s == [n \in 0 .. 0 |-> ReadStart(off)]
  <2>1. s = [n \in 0 .. 0 |-> IF n = 0 THEN ReadStart(off)
                              ELSE ReadNext(in, off, len, s[n - 1])]
    OBVIOUS
  <2>. QED BY <2>1 DEF IsRead
<1>2. ASSUME NEW m \in Nat, m \in T PROVE m + 1 \in T
  <2>1. PICK g : IsRead(in, off, len, m, g)
    BY <1>2
  <2> DEFINE h == [j \in 0 .. m + 1 |->
                     IF j = m + 1 THEN ReadNext(in, off, len, g[m]) ELSE g[j]]
             f == [j \in 0 .. m + 1 |-> IF j = 0 THEN ReadStart(off)
                                        ELSE ReadNext(in, off, len, h[j - 1])]
  <2>2. ASSUME NEW j \in 0 .. m + 1 PROVE h[j] = f[j]
    <3>1. CASE j = m + 1
      <4>1. h[m] = g[m] /\ m + 1 - 1 = m /\ j # 0
        BY <3>1
      <4>2. h[j] = ReadNext(in, off, len, g[m]) /\ f[j] = ReadNext(in, off, len, h[j - 1])
        BY <3>1, <4>1
      <4>. QED BY <3>1, <4>1, <4>2
    <3>2. CASE j = 0
      BY <2>1, <3>2 DEF IsRead
    <3>3. CASE j # 0 /\ j # m + 1
      <4>1. j \in 0 .. m /\ j - 1 \in 0 .. m /\ h[j] = g[j] /\ h[j - 1] = g[j - 1]
        BY <3>3
      <4>2. g[j] = ReadNext(in, off, len, g[j - 1])
        BY <2>1, <3>3, <4>1 DEF IsRead
      <4>3. f[j] = ReadNext(in, off, len, h[j - 1])
        BY <3>3
      <4>. QED BY <4>1, <4>2, <4>3
    <3>. QED BY <3>1, <3>2, <3>3
  <2>3. h = f
    <3>1. h = [j \in 0 .. m + 1 |-> h[j]] /\ f = [j \in 0 .. m + 1 |-> f[j]]
      OBVIOUS
    <3> HIDE DEF h, f
    <3>. QED BY <2>2, <3>1
  <2>4. IsRead(in, off, len, m + 1, h)
    BY <2>3 DEF IsRead
  <2>. QED BY <2>4
<1>3. Nat \subseteq T
  <2> HIDE DEF T
  <2>. QED BY <1>1, <1>2, SetInduction
<1>. QED BY <1>3

reads(in, off, len) == CHOOSE s : IsRead(in, off, len, len, s)

LEMMA Reads ==
  ASSUME NEW in, NEW off, NEW len \in Nat
  PROVE  LET s == reads(in, off, len)
         IN  /\ s[0] = ReadStart(off)
             /\ \A n \in 0 .. len - 1 : s[n + 1] = ReadNext(in, off, len, s[n])
             /\ read_loop(in, off, len) = s[len].buf
<1> DEFINE s == reads(in, off, len)
<1>1. IsRead(in, off, len, len, s)
  BY ReadExists DEF reads
<1>2. read_loop(in, off, len) = s[len].buf
  BY DEF read_loop, reads, IsRead, ReadStart, ReadNext, ReadTurn
<1>3. \A n \in 0 .. len : s[n] = IF n = 0 THEN ReadStart(off)
                                 ELSE ReadNext(in, off, len, s[n - 1])
  <2> HIDE DEF s
  <2>. QED BY <1>1 DEF IsRead
<1> HIDE DEF s
<1>4. s[0] = ReadStart(off)
  BY <1>3
<1>5. ASSUME NEW n \in 0 .. len - 1 PROVE s[n + 1] = ReadNext(in, off, len, s[n])
  <2>1. n + 1 \in 0 .. len /\ n + 1 # 0 /\ (n + 1) - 1 = n
    OBVIOUS
  <2>2. s[n + 1] = ReadNext(in, off, len, s[(n + 1) - 1])
    BY <1>3, <2>1
  <2>. QED BY <2>1, <2>2
<1>. QED BY <1>2, <1>4, <1>5 DEF s

\* What the first turns have put into the buffer: the bytes from the offset on,
\* at least one per turn, unless the loop is done.
ReadSoFar(in, off, len, n, s) ==
  LET L == Len(s.buf)
  IN  /\ s.buf \in Seq(Bytes)
      /\ L <= len /\ off + L <= in.size
      /\ \A k \in 1 .. L : s.buf[k] = ByteAt(in, off + k - 1)
      /\ \/ L >= len \/ L + off >= in.size
         \/ /\ L >= n
            /\ s.block_num \in Nat /\ s.block_offset \in InBlock
            /\ off + L = s.block_num * BlockSize + s.block_offset

LEMMA ReadBegins ==
  ASSUME NEW in, NEW off \in Nat, NEW len \in Nat, in.size \in Nat, off < in.size
  PROVE  ReadSoFar(in, off, len, 0, ReadStart(off))
<1> DEFINE s == ReadStart(off)
<1>1. s.buf = <<>> /\ s.block_num = off \div BlockSize /\ s.block_offset = off % BlockSize
  BY DEF ReadStart
<1>2. <<>> \in Seq(Bytes) /\ Len(<<>>) = 0
  BY EmptySeq
<1>3. /\ s.block_num \in Nat /\ s.block_offset \in InBlock
      /\ off = s.block_num * BlockSize + s.block_offset
  BY <1>1, PositionOf
<1> HIDE DEF s
<1> DEFINE L == Len(s.buf)
<1>4. L = 0 /\ s.buf \in Seq(Bytes)
  BY <1>1, <1>2
<1> HIDE DEF L
<1>5. L <= len /\ off + L <= in.size /\ L >= 0 /\ off + L = off /\ 1 .. L = {}
  BY <1>4
<1>. QED BY <1>3, <1>4, <1>5 DEF ReadSoFar, s, L

LEMMA ReadGoesOn ==
  ASSUME NEW in, NEW off \in Nat, NEW len \in Nat, in.size \in Nat, HasBytes(in),
         NEW n \in Nat, NEW s, ReadSoFar(in, off, len, n, s)
  PROVE  ReadSoFar(in, off, len, n + 1, ReadNext(in, off, len, s))
<1> DEFINE L == Len(s.buf)
           q == s.block_num
           o == s.block_offset
           z == in.size
           r == read_length(in, off, len, s)
           c == [k \in 1 .. r |-> bytes[in.ptrs[q]][o + k - 1]]
           t == ReadTurn(in, off, len, s)
<1>1. /\ s.buf \in Seq(Bytes) /\ L \in Nat /\ L <= len /\ off + L <= z
      /\ \A k \in 1 .. L : s.buf[k] = ByteAt(in, off + k - 1)
      /\ z \in Nat
  BY LenProperties DEF ReadSoFar
<1>2. CASE L >= len \/ L + off >= z
  <2>1. ReadNext(in, off, len, s) = s
    BY <1>2 DEF ReadNext
  <2>. QED BY <1>1, <1>2, <2>1 DEF ReadSoFar
<1>3. CASE ~(L >= len \/ L + off >= z)
  <2> DEFINE X == q * BlockSize
             T == {BlockSize - o, len - L, z - off - L}
  <2>1. ReadNext(in, off, len, s) = t
    BY <1>3 DEF ReadNext
  <2>2. L >= n /\ q \in Nat /\ o \in InBlock /\ off + L = X + o
    BY <1>3 DEF ReadSoFar
  <2>3. r = Min(T)
    BY DEF read_length
  <2>4. t.buf = s.buf \o c /\ t.block_num = q + 1 /\ t.block_offset = 0
    BY DEF ReadTurn
  <2>5. \A k \in 0 .. z - 1 : ByteAt(in, k) \in Bytes
    BY DEF HasBytes
  <2> HIDE DEF L, q, o, z, r, t
  <2>6. /\ BlockSize \in Nat /\ BlockSize > 0 /\ o \in Nat /\ o < BlockSize
        /\ X \in Nat /\ (q + 1) * BlockSize = X + BlockSize
    BY <2>2, SizesAssumption DEF InBlock
  <2> HIDE DEF X
  <2>7. \A x \in T : x \in Nat /\ x >= 1
    <3>1. BlockSize - o \in Nat /\ BlockSize - o >= 1
      BY <2>6
    <3>2. len - L \in Nat /\ len - L >= 1 /\ z - off - L \in Nat /\ z - off - L >= 1
      BY <1>1, <1>3
    <3>. QED BY <3>1, <3>2
  <2>8. r \in T /\ \A x \in T : r <= x
    <3>1. T \subseteq Nat /\ T # {}
      BY <2>7
    <3> HIDE DEF T
    <3>. QED BY <2>3, <3>1, MinLeast
  <2>9. /\ r \in Nat /\ r >= 1
        /\ r = BlockSize - o \/ r = len - L \/ r = z - off - L
        /\ r <= BlockSize - o /\ r <= len - L /\ r <= z - off - L
    BY <2>7, <2>8
  <2>10. ASSUME NEW k \in 1 .. r
         PROVE  c[k] = ByteAt(in, off + L + k - 1) /\ c[k] \in Bytes
    <3>1. /\ o + k - 1 \in InBlock
          /\ off + L + k - 1 = X + (o + k - 1)
          /\ off + L + k - 1 \in 0 .. z - 1
      BY <1>1, <2>2, <2>6, <2>9 DEF InBlock
    <3>2. /\ (X + (o + k - 1)) \div BlockSize = q
          /\ (X + (o + k - 1)) % BlockSize = o + k - 1
      BY <2>2, <3>1, Position DEF X
    <3>3. c[k] = bytes[in.ptrs[q]][o + k - 1]
      OBVIOUS
    <3>4. c[k] = ByteAt(in, off + L + k - 1)
      BY <3>1, <3>2, <3>3 DEF ByteAt
    <3>. QED BY <2>5, <3>1, <3>4
  <2>11. c \in Seq(Bytes) /\ Len(c) = r
    <3>1. c \in [1 .. r -> Bytes]
      BY <2>10
    <3> HIDE DEF c
    <3>. QED BY <2>9, <3>1
  <2> HIDE DEF c
  <2>12. /\ t.buf \in Seq(Bytes) /\ Len(t.buf) = L + r
         /\ \A k \in 1 .. L + r : t.buf[k] = IF k <= L THEN s.buf[k] ELSE c[k - L]
    <3>1. /\ s.buf \o c \in Seq(Bytes) /\ Len(s.buf \o c) = Len(s.buf) + Len(c)
          /\ \A k \in 1 .. Len(s.buf) + Len(c) :
               (s.buf \o c)[k] = IF k <= Len(s.buf) THEN s.buf[k] ELSE c[k - Len(s.buf)]
      BY <1>1, <2>11, ConcatProperties
    <3>. QED BY <2>4, <2>11, <3>1 DEF L
  <2>13. ASSUME NEW k \in 1 .. L + r PROVE t.buf[k] = ByteAt(in, off + k - 1)
    <3>1. CASE k <= L
      <4>1. k \in 1 .. L
        BY <1>1, <2>9, <3>1
      <4>. QED BY <1>1, <2>12, <3>1, <4>1
    <3>2. CASE ~(k <= L)
      <4>1. k - L \in 1 .. r /\ off + L + (k - L) - 1 = off + k - 1
        BY <1>1, <2>9, <3>2
      <4>2. t.buf[k] = c[k - L]
        BY <2>12, <3>2
      <4>3. c[k - L] = ByteAt(in, off + L + (k - L) - 1)
        BY <2>10, <4>1
      <4>. QED BY <4>1, <4>2, <4>3
    <3>. QED BY <3>1, <3>2
  <2>14. \/ L + r >= len \/ L + r + off >= z
         \/ off + (L + r) = (q + 1) * BlockSize + 0
    BY <1>1, <2>2, <2>6, <2>9
  <2>15. 0 \in InBlock /\ q + 1 \in Nat /\ L + r >= n + 1
    BY <1>1, <2>2, <2>6, <2>9 DEF InBlock
  <2>16. L + r <= len /\ off + (L + r) <= z
    BY <1>1, <2>9
  <2>17. ReadSoFar(in, off, len, n + 1, t)
    BY <2>4, <2>12, <2>13, <2>14, <2>15, <2>16 DEF ReadSoFar, z
  <2>. QED BY <2>1, <2>17
<1>. QED BY <1>2, <1>3

\* The loop of fs_read fills the buffer with the bytes of the file.
LEMMA ReadLoop ==
  ASSUME NEW in, NEW off \in Nat, NEW len \in Nat, in.size \in Nat, off < in.size,
         HasBytes(in)
  PROVE  LET buf == read_loop(in, off, len)
         IN  /\ buf \in Seq(Bytes)
             /\ Len(buf) = IF off + len <= in.size THEN len ELSE in.size - off
             /\ \A k \in 1 .. Len(buf) : buf[k] = ByteAt(in, off + k - 1)
<1> DEFINE s == reads(in, off, len)
           T == {n \in Nat : n <= len => ReadSoFar(in, off, len, n, s[n])}
<1>1. /\ s[0] = ReadStart(off)
      /\ \A n \in 0 .. len - 1 : s[n + 1] = ReadNext(in, off, len, s[n])
      /\ read_loop(in, off, len) = s[len].buf
  BY Reads
<1> HIDE DEF s
<1>2. 0 \in T
  BY <1>1, ReadBegins
<1>3. ASSUME NEW n \in Nat, n \in T PROVE n + 1 \in T
  <2>1. CASE n + 1 <= len
    <3>1. ReadSoFar(in, off, len, n, s[n]) /\ s[n + 1] = ReadNext(in, off, len, s[n])
      BY <1>1, <1>3, <2>1
    <3>. QED BY <3>1, ReadGoesOn
  <2>. QED BY <2>1
<1>4. Nat \subseteq T
  <2> HIDE DEF T
  <2>. QED BY <1>2, <1>3, SetInduction
<1>5. ReadSoFar(in, off, len, len, s[len])
  BY <1>4
<1> DEFINE b == s[len].buf
<1>6. /\ b \in Seq(Bytes) /\ Len(b) \in Nat /\ Len(b) <= len /\ off + Len(b) <= in.size
      /\ \A k \in 1 .. Len(b) : b[k] = ByteAt(in, off + k - 1)
      /\ Len(b) >= len \/ Len(b) + off >= in.size
  BY <1>5, LenProperties DEF ReadSoFar
<1> HIDE DEF b
<1>7. Len(b) = IF off + len <= in.size THEN len ELSE in.size - off
  BY <1>6
<1>. QED BY <1>1, <1>6, <1>7 DEF b

\* In a sound image whose files hold only bytes that were written, fs_read
\* gives what it should.
FilesWritten ==
  \A i \in Linked(disk) : disk[i].type = "file" => HasBytes(disk[i])

LEMMA ReadsRight == Sound /\ FilesWritten => ReadExact
<1> SUFFICES ASSUME Sound, FilesWritten,
                    NEW p \in Paths, NEW off \in Nat, NEW len \in Nat,
                    file_errno(p) = 0
             PROVE  LET want == FF!Slice(Contents(p), off, len)
                    IN  /\ fs_read(p, len, off) = [ret |-> Len(want), buf |-> want]
                        /\ Junk \notin Range(want)
  BY RequestAssumption DEF ReadExact
<1> DEFINE in   == disk[path2inum(p)]
           c    == Contents(p)
           want == FF!Slice(c, off, len)
           z    == Min({off + len, Len(c)})
<1>1. off \in Nat /\ len \in Nat
  OBVIOUS
<1>2. in \in Inode /\ in.size \in Nat /\ HasBytes(in)
  <2>1. path2inum(p) \in Linked(disk) /\ in.type = "file"
    BY SoundWalkable, FileFound
  <2>2. in \in Inode
    BY <2>1, LinkedInode
  <2>. QED BY <2>1, <2>2 DEF FilesWritten, Inode
<1>3. ASSUME NEW k \in 1 .. in.size PROVE c[k] = ByteAt(in, k - 1) /\ c[k] \in Bytes
  <2>1. c[k] = ByteAt(in, k - 1)
    BY DEF Contents, ByteAt
  <2>2. k - 1 \in 0 .. in.size - 1
    BY <1>2
  <2>. QED BY <1>2, <2>1, <2>2 DEF HasBytes
<1>4. c \in Seq(Bytes) /\ Len(c) = in.size
  <2>1. c = [k \in 1 .. in.size |-> c[k]]
    BY DEF Contents
  <2> HIDE DEF c
  <2>2. c \in [1 .. in.size -> Bytes]
    BY <1>3, <2>1
  <2>. QED BY <1>2, <2>2
<1> HIDE DEF in, c
<1>5. z = IF off + len <= in.size THEN off + len ELSE in.size
  <2>1. {off + len, Len(c)} \subseteq Nat
    BY <1>1, <1>2, <1>4
  <2>2. z \in {off + len, Len(c)} /\ \A y \in {off + len, Len(c)} : z <= y
    BY <2>1, MinLeast
  <2> HIDE DEF z
  <2>. QED BY <1>1, <1>2, <1>4, <2>2
<1>6. want = SubSeq(c, off + 1, z)
  BY DEF FF!Slice, FF!Min, Min
<1> HIDE DEF z, want
<1>7. off + 1 \in Int /\ z \in Int /\ z <= in.size
  BY <1>1, <1>2, <1>5
<1>8. /\ want \in Seq(Bytes)
      /\ Len(want) = IF off + 1 <= z THEN z - (off + 1) + 1 ELSE 0
      /\ \A k \in 1 .. z - (off + 1) + 1 : want[k] = c[off + 1 + k - 1]
  <2>1. \A k \in off + 1 .. z : c[k] \in Bytes
    BY <1>1, <1>2, <1>3, <1>7
  <2>. QED BY <1>6, <1>7, <2>1, SubSeqProperties
<1>9. Junk \notin Range(want)
  <2>1. \A k \in DOMAIN want : want[k] \in Bytes
    BY <1>8, LenProperties
  <2>. QED BY <2>1, JunkAssumption DEF Range
<1>10. fs_read(p, len, off) =
         IF off >= in.size THEN [ret |-> 0, buf |-> <<>>]
         ELSE [ret |-> Len(read_loop(in, off, len)), buf |-> read_loop(in, off, len)]
  BY DEF fs_read, in
<1>11. CASE off >= in.size
  <2>1. want = <<>> /\ Len(want) = 0
    BY <1>1, <1>2, <1>7, <1>8, <1>11, EmptySeq
  <2>. QED BY <1>9, <1>10, <1>11, <2>1 DEF want, c
<1>12. CASE ~(off >= in.size)
  <2> DEFINE b == read_loop(in, off, len)
  <2>1. /\ b \in Seq(Bytes)
        /\ Len(b) = IF off + len <= in.size THEN len ELSE in.size - off
        /\ \A k \in 1 .. Len(b) : b[k] = ByteAt(in, off + k - 1)
    <3>1. off < in.size
      BY <1>1, <1>2, <1>12
    <3>. QED BY ONLY <1>1, <1>2, <3>1, ReadLoop, Zenon
  <2> HIDE DEF b
  <2>2. Len(b) = z - off /\ Len(b) = Len(want)
    <3> DEFINE n == in.size
               lb == Len(b)
               lw == Len(want)
    <3>1. /\ n \in Nat /\ z \in Int /\ ~(off >= n)
          /\ z = IF off + len <= n THEN off + len ELSE n
          /\ lb = IF off + len <= n THEN len ELSE n - off
          /\ lw = IF off + 1 <= z THEN z - (off + 1) + 1 ELSE 0
      BY <1>2, <1>5, <1>7, <1>8, <1>12, <2>1
    <3> HIDE DEF n, lb, lw
    <3>2. lb = z - off /\ lb = lw
      BY ONLY <1>1, <3>1
    <3>. QED BY <3>2 DEF lb, lw
  <2>3. ASSUME NEW k \in 1 .. Len(b) PROVE b[k] = want[k]
    <3>1. k \in 1 .. z - (off + 1) + 1 /\ off + 1 + k - 1 = off + k /\ off + k \in 1 .. in.size
      BY <1>1, <1>2, <1>7, <2>2
    <3>2. want[k] = c[off + k]
      BY <1>8, <3>1
    <3>3. c[off + k] = ByteAt(in, off + k - 1)
      <4> DEFINE x == off + k
      <4>1. x \in 1 .. in.size
        BY <3>1
      <4> HIDE DEF x
      <4>2. c[x] = ByteAt(in, x - 1)
        BY <1>3, <4>1
      <4>. QED BY <4>2 DEF x
    <3>. QED BY <2>1, <3>2, <3>3
  <2>4. b = want
    BY <1>8, <2>1, <2>2, <2>3, SeqEqual
  <2>. QED BY <1>9, <1>10, <1>12, <2>4 DEF b, want, c
<1>. QED BY <1>11, <1>12

-----------------------------------------------------------------------------
(***************************************************************************)
(* The loop of fs_write, in the same way.                                  *)
(***************************************************************************)
WriteStart(off) ==
  [nread |-> 0, block_num |-> off \div BlockSize,
   block_offset |-> off % BlockSize, buffer |-> JunkBlk,
   map |-> map, bytes |-> bytes, stop |-> FALSE]

WriteNext(in, buf, s) ==
  IF s.stop \/ s.nread >= Len(buf) THEN s ELSE write_turn(in, buf, s)

IsWrite(in, off, buf, N, s) ==
  s = [n \in 0 .. N |-> IF n = 0 THEN WriteStart(off) ELSE WriteNext(in, buf, s[n - 1])]

LEMMA WriteExists ==
  ASSUME NEW in, NEW off, NEW buf, NEW N \in Nat
  PROVE  \E s : IsWrite(in, off, buf, N, s)
<1> DEFINE T == {m \in Nat : \E s : IsWrite(in, off, buf, m, s)}
<1>1. 0 \in T
  <2> DEFINE s == [n \in 0 .. 0 |-> WriteStart(off)]
  <2>1. s = [n \in 0 .. 0 |-> IF n = 0 THEN WriteStart(off)
                              ELSE WriteNext(in, buf, s[n - 1])]
    OBVIOUS
  <2>. QED BY <2>1 DEF IsWrite
<1>2. ASSUME NEW m \in Nat, m \in T PROVE m + 1 \in T
  <2>1. PICK g : IsWrite(in, off, buf, m, g)
    BY <1>2
  <2> DEFINE h == [j \in 0 .. m + 1 |-> IF j = m + 1 THEN WriteNext(in, buf, g[m]) ELSE g[j]]
             f == [j \in 0 .. m + 1 |-> IF j = 0 THEN WriteStart(off)
                                        ELSE WriteNext(in, buf, h[j - 1])]
  <2>2. ASSUME NEW j \in 0 .. m + 1 PROVE h[j] = f[j]
    <3>1. CASE j = m + 1
      <4>1. h[m] = g[m] /\ m + 1 - 1 = m /\ j # 0
        BY <3>1
      <4>2. h[j] = WriteNext(in, buf, g[m]) /\ f[j] = WriteNext(in, buf, h[j - 1])
        BY <3>1, <4>1
      <4>. QED BY <3>1, <4>1, <4>2
    <3>2. CASE j = 0
      BY <2>1, <3>2 DEF IsWrite
    <3>3. CASE j # 0 /\ j # m + 1
      <4>1. j \in 0 .. m /\ j - 1 \in 0 .. m /\ h[j] = g[j] /\ h[j - 1] = g[j - 1]
        BY <3>3
      <4>2. g[j] = WriteNext(in, buf, g[j - 1])
        BY <2>1, <3>3, <4>1 DEF IsWrite
      <4>3. f[j] = WriteNext(in, buf, h[j - 1])
        BY <3>3
      <4>. QED BY <4>1, <4>2, <4>3
    <3>. QED BY <3>1, <3>2, <3>3
  <2>3. h = f
    <3>1. h = [j \in 0 .. m + 1 |-> h[j]] /\ f = [j \in 0 .. m + 1 |-> f[j]]
      OBVIOUS
    <3> HIDE DEF h, f
    <3>. QED BY <2>2, <3>1
  <2>4. IsWrite(in, off, buf, m + 1, h)
    BY <2>3 DEF IsWrite
  <2>. QED BY <2>4
<1>3. Nat \subseteq T
  <2> HIDE DEF T
  <2>. QED BY <1>1, <1>2, SetInduction
<1>. QED BY <1>3

writes(in, off, buf) == CHOOSE s : IsWrite(in, off, buf, Len(buf), s)

LEMMA Writes ==
  ASSUME NEW in, NEW off, NEW buf, Len(buf) \in Nat
  PROVE  LET s == writes(in, off, buf)
         IN  /\ s[0] = WriteStart(off)
             /\ \A n \in 0 .. Len(buf) - 1 : s[n + 1] = WriteNext(in, buf, s[n])
             /\ write_loop(in, off, buf) = s[Len(buf)]
<1> DEFINE s == writes(in, off, buf)
           N == Len(buf)
<1>1. IsWrite(in, off, buf, N, s)
  BY WriteExists DEF writes
<1>2. write_loop(in, off, buf) = s[N]
  BY DEF write_loop, writes, IsWrite, WriteStart, WriteNext
<1> HIDE DEF s, N
<1>3. \A n \in 0 .. N : s[n] = IF n = 0 THEN WriteStart(off)
                               ELSE WriteNext(in, buf, s[n - 1])
  BY <1>1 DEF IsWrite
<1>4. N \in Nat
  BY DEF N
<1>5. s[0] = WriteStart(off)
  BY <1>3, <1>4
<1>6. ASSUME NEW n \in 0 .. N - 1 PROVE s[n + 1] = WriteNext(in, buf, s[n])
  <2>1. n + 1 \in 0 .. N /\ n + 1 # 0 /\ (n + 1) - 1 = n
    BY <1>4
  <2>2. s[n + 1] = WriteNext(in, buf, s[(n + 1) - 1])
    BY <1>3, <2>1
  <2>. QED BY <2>1, <2>2
<1>. QED BY <1>2, <1>5, <1>6 DEF s, N

\* A state of the loop has these fields and no others.
WState(s) ==
  s = [nread |-> s.nread, block_num |-> s.block_num,
       block_offset |-> s.block_offset, buffer |-> s.buffer,
       map |-> s.map, bytes |-> s.bytes, stop |-> s.stop]

\* The block that a turn changes, how many bytes of it, and what it writes.
TurnPtr(in, s) ==
  IF s.block_num >= nblocks(in) THEN alloc_blk(s.map) ELSE in.ptrs[s.block_num]
TurnLen(buf, s) == Min({BlockSize - s.block_offset, Len(buf) - s.nread})
TurnBlk(in, buf, s) ==
  [o \in InBlock |->
     IF o \in s.block_offset .. s.block_offset + TurnLen(buf, s) - 1
     THEN buf[s.nread + o - s.block_offset + 1]
     ELSE block_read(s.bytes, TurnPtr(in, s), s.buffer)[o]]

\* A turn breaks off, because no block is free, or copies its bytes.
BreaksOff(in, s, t) ==
  /\ TurnPtr(in, s) < 0
  /\ t.stop = TRUE /\ t.map = s.map /\ t.bytes = s.bytes
  /\ t.nread = s.nread /\ t.block_num = s.block_num
  /\ t.block_offset = s.block_offset

Copies(in, buf, s, t) ==
  /\ ~(TurnPtr(in, s) < 0)
  /\ t.stop = s.stop
  /\ t.map = IF s.block_num >= nblocks(in) THEN s.map \cup {TurnPtr(in, s)} ELSE s.map
  /\ t.bytes = block_write(s.bytes, TurnPtr(in, s), TurnBlk(in, buf, s))
  /\ t.nread = s.nread + TurnLen(buf, s)
  /\ t.block_num = s.block_num + 1
  /\ t.block_offset = 0

LEMMA TurnParts ==
  ASSUME NEW in, NEW buf, NEW s, WState(s), NEW t, t = write_turn(in, buf, s)
  PROVE  WState(t) /\ (BreaksOff(in, s, t) \/ Copies(in, buf, s, t))
<1> DEFINE ptr == TurnPtr(in, s)
           b   == TurnBlk(in, buf, s)
           m   == IF s.block_num >= nblocks(in) THEN s.map \cup {ptr} ELSE s.map
           w   == block_write(s.bytes, ptr, b)
           l   == TurnLen(buf, s)
<1>1. t = IF ptr < 0 THEN [s EXCEPT !.stop = TRUE]
          ELSE write_next([s EXCEPT !.map = m, !.buffer = b, !.bytes = w], l)
  BY DEF write_turn, TurnPtr, TurnBlk, TurnLen, bit_set
<1> HIDE DEF ptr, b, m, w, l
<1>2. CASE ptr < 0
  <2>1. t = [nread |-> s.nread, block_num |-> s.block_num,
             block_offset |-> s.block_offset, buffer |-> s.buffer,
             map |-> s.map, bytes |-> s.bytes, stop |-> TRUE]
    BY <1>1, <1>2 DEF WState
  <2>2. /\ t.stop = TRUE /\ t.map = s.map /\ t.bytes = s.bytes
        /\ t.nread = s.nread /\ t.block_num = s.block_num
        /\ t.block_offset = s.block_offset /\ t.buffer = s.buffer
    BY <2>1
  <2>3. WState(t)
    BY <2>1, <2>2 DEF WState
  <2>. QED BY <1>2, <2>2, <2>3 DEF ptr, BreaksOff
<1>3. CASE ~(ptr < 0)
  <2>1. [s EXCEPT !.map = m, !.buffer = b, !.bytes = w] =
          [nread |-> s.nread, block_num |-> s.block_num,
           block_offset |-> s.block_offset, buffer |-> b,
           map |-> m, bytes |-> w, stop |-> s.stop]
    <3> DEFINE u1 == [s EXCEPT !.map = m]
               u2 == [u1 EXCEPT !.buffer = b]
               u3 == [u2 EXCEPT !.bytes = w]
    <3>1. [s EXCEPT !.map = m, !.buffer = b, !.bytes = w] = u3
      OBVIOUS
    <3>2. u1 = [nread |-> s.nread, block_num |-> s.block_num,
                block_offset |-> s.block_offset, buffer |-> s.buffer,
                map |-> m, bytes |-> s.bytes, stop |-> s.stop]
      BY DEF WState
    <3> HIDE DEF u1
    <3>3. u2 = [nread |-> s.nread, block_num |-> s.block_num,
                block_offset |-> s.block_offset, buffer |-> b,
                map |-> m, bytes |-> s.bytes, stop |-> s.stop]
      BY <3>2
    <3> HIDE DEF u2
    <3>4. u3 = [nread |-> s.nread, block_num |-> s.block_num,
                block_offset |-> s.block_offset, buffer |-> b,
                map |-> m, bytes |-> w, stop |-> s.stop]
      BY <3>3
    <3> HIDE DEF u3
    <3>. QED BY <3>1, <3>4
  <2>2. t = [nread |-> s.nread + l, block_num |-> s.block_num + 1,
             block_offset |-> 0, buffer |-> b, map |-> m, bytes |-> w, stop |-> s.stop]
    BY <1>1, <1>3, <2>1 DEF write_next
  <2>3. /\ t.stop = s.stop /\ t.map = m /\ t.bytes = w /\ t.nread = s.nread + l
        /\ t.block_num = s.block_num + 1 /\ t.block_offset = 0 /\ t.buffer = b
    BY <2>2
  <2>4. WState(t)
    BY <2>2, <2>3 DEF WState
  <2>. QED BY <1>3, <2>3, <2>4 DEF ptr, b, m, w, l, Copies
<1>. QED BY <1>2, <1>3

\* Writing a block leaves the others alone.
LEMMA BlockWritten ==
  ASSUME NEW by, NEW p \in Nat, NEW b
  PROVE  LET w == block_write(by, p, b)
         IN  /\ p \in DOMAIN w /\ w[p] = b
             /\ \A c \in DOMAIN by : c \in DOMAIN w /\ (c # p => w[c] = by[c])
<1>1. p \in 0 .. p
  OBVIOUS
<1>. QED BY <1>1 DEF block_write

\* Where the loop is after n turns: it has copied a byte per turn, or it is
\* done or broken off.
WPos(off, len, n, s) ==
  /\ WState(s)
  /\ s.nread \in 0 .. len /\ s.block_num \in Nat /\ s.block_offset \in InBlock
  /\ s.stop \in BOOLEAN
  /\ \/ s.stop \/ s.nread >= len
     \/ s.nread >= n /\ off + s.nread = s.block_num * BlockSize + s.block_offset

\* A turn that is not broken off copies at least one byte, and no further than
\* to the end of the block and of the buffer.
LEMMA TurnLenFacts ==
  ASSUME NEW buf, NEW s, Len(buf) \in Nat, s.nread \in 0 .. Len(buf),
         ~(s.nread >= Len(buf)), s.block_offset \in InBlock
  PROVE  LET l == TurnLen(buf, s)
         IN  /\ l \in Nat /\ l >= 1
             /\ l = BlockSize - s.block_offset \/ l = Len(buf) - s.nread
             /\ l <= BlockSize - s.block_offset /\ l <= Len(buf) - s.nread
<1> DEFINE o == s.block_offset
           r == s.nread
           N == Len(buf)
           l == TurnLen(buf, s)
           T == {BlockSize - o, N - r}
<1>1. l = Min(T)
  BY DEF TurnLen
<1>2. o \in InBlock /\ r \in 0 .. N /\ N \in Nat /\ ~(r >= N)
  OBVIOUS
<1> HIDE DEF o, r, N, l
<1>3. \A x \in T : x \in Nat /\ x >= 1
  <2>1. BlockSize - o \in Nat /\ BlockSize - o >= 1
    BY <1>2, SizesAssumption DEF InBlock
  <2>2. N - r \in Nat /\ N - r >= 1
    BY <1>2
  <2>. QED BY <2>1, <2>2
<1>4. l \in T /\ \A x \in T : l <= x
  <2>1. T \subseteq Nat /\ T # {}
    BY <1>3
  <2> HIDE DEF T
  <2>. QED BY <1>1, <2>1, MinLeast
<1>5. /\ l \in Nat /\ l >= 1
      /\ l = BlockSize - o \/ l = N - r
      /\ l <= BlockSize - o /\ l <= N - r
  BY <1>3, <1>4
<1>. QED BY <1>5 DEF l, o, r, N

LEMMA WPosBegins ==
  ASSUME NEW off \in Nat, NEW len \in Nat
  PROVE  WPos(off, len, 0, WriteStart(off))
<1> DEFINE s == WriteStart(off)
<1>1. /\ s.nread = 0 /\ s.block_num = off \div BlockSize
      /\ s.block_offset = off % BlockSize /\ s.stop = FALSE
  BY DEF WriteStart
<1>2. WState(s)
  BY DEF WState, WriteStart
<1> HIDE DEF s
<1>3. /\ s.block_num \in Nat /\ s.block_offset \in InBlock
      /\ off = s.block_num * BlockSize + s.block_offset
  BY <1>1, PositionOf
<1>4. off + s.nread = off /\ s.nread \in 0 .. len /\ s.nread >= 0
  BY <1>1
<1>. QED BY <1>1, <1>2, <1>3, <1>4 DEF WPos, s

LEMMA WPosGoesOn ==
  ASSUME NEW in, NEW buf, Len(buf) \in Nat, NEW off \in Nat, NEW n \in Nat,
         NEW s, WPos(off, Len(buf), n, s)
  PROVE  WPos(off, Len(buf), n + 1, WriteNext(in, buf, s))
<1> DEFINE N == Len(buf)
           t == write_turn(in, buf, s)
           l == TurnLen(buf, s)
           r == s.nread
           q == s.block_num
           o == s.block_offset
           X == q * BlockSize
<1>1. CASE s.stop \/ s.nread >= N
  <2>1. WriteNext(in, buf, s) = s
    BY <1>1 DEF WriteNext
  <2>. QED BY <1>1, <2>1 DEF WPos
<1>2. CASE ~(s.stop \/ s.nread >= N)
  <2>1. WriteNext(in, buf, s) = t
    BY <1>2 DEF WriteNext
  <2>2. /\ WState(s) /\ s.stop = FALSE /\ N \in Nat /\ r \in 0 .. N /\ q \in Nat
        /\ o \in InBlock /\ r >= n /\ off + r = X + o
    BY <1>2 DEF WPos
  <2>3. /\ l \in Nat /\ l >= 1
        /\ l = BlockSize - o \/ l = N - r
        /\ l <= BlockSize - o /\ l <= N - r
    BY <1>2, <2>2, TurnLenFacts
  <2>4. /\ WState(t)
        /\ \/ /\ t.stop = TRUE /\ t.nread = r /\ t.block_num = q /\ t.block_offset = o
           \/ /\ t.stop = FALSE /\ t.nread = r + l /\ t.block_num = q + 1
              /\ t.block_offset = 0
    <3>1. WState(t) /\ (BreaksOff(in, s, t) \/ Copies(in, buf, s, t))
      BY <2>2, TurnParts
    <3>2. CASE BreaksOff(in, s, t)
      <4> HIDE DEF t
      <4>. QED BY <2>2, <3>1, <3>2 DEF BreaksOff
    <3>3. CASE Copies(in, buf, s, t)
      <4> HIDE DEF t, l
      <4>1. /\ t.stop = s.stop /\ t.nread = s.nread + TurnLen(buf, s)
            /\ t.block_num = s.block_num + 1 /\ t.block_offset = 0
        BY <3>3 DEF Copies
      <4>. QED BY <2>2, <3>1, <4>1 DEF l
    <3>. QED BY <3>1, <3>2, <3>3
  <2> HIDE DEF N, t, l, r, q, o
  <2>5. CASE t.stop = TRUE /\ t.nread = r /\ t.block_num = q /\ t.block_offset = o
    BY <2>1, <2>2, <2>4, <2>5 DEF WPos, N
  <2>6. CASE /\ t.stop = FALSE /\ t.nread = r + l /\ t.block_num = q + 1
             /\ t.block_offset = 0
    <3>1. /\ BlockSize \in Nat /\ BlockSize > 0 /\ X \in Nat /\ o \in Nat
          /\ (q + 1) * BlockSize = X + BlockSize /\ r \in Nat
      BY <2>2, SizesAssumption DEF InBlock
    <3> HIDE DEF X
    <3>2. 0 \in InBlock /\ q + 1 \in Nat /\ r + l \in 0 .. N /\ r + l >= n + 1
      BY <2>2, <2>3, <3>1 DEF InBlock
    <3>3. r + l >= N \/ off + (r + l) = (q + 1) * BlockSize + 0
      BY <2>2, <2>3, <3>1
    <3>. QED BY <2>1, <2>4, <2>6, <3>2, <3>3 DEF WPos, N
  <2>. QED BY <2>4, <2>5, <2>6
<1>. QED BY <1>1, <1>2

\* What the loop has not spoilt: the bytes of marked blocks are as they were,
\* or bytes of the request.
WSafe(s) ==
  /\ map \subseteq s.map
  /\ \A b \in map : b \in DOMAIN bytes =>
       /\ b \in DOMAIN s.bytes
       /\ \A o \in InBlock : s.bytes[b][o] = bytes[b][o] \/ s.bytes[b][o] \in Bytes

\* The blocks of a file are marked and in the image.
InImage(in) ==
  \A q \in 0 .. nblocks(in) - 1 :
    in.ptrs[q] \in map /\ in.ptrs[q] \in Nat /\ in.ptrs[q] \in DOMAIN bytes

LEMMA FilesInImage ==
  ASSUME Sound, FilesWritten, NEW i \in Linked(disk), disk[i].type = "file"
  PROVE  InImage(disk[i])
<1> SUFFICES ASSUME NEW q \in 0 .. nblocks(disk[i]) - 1
             PROVE  /\ disk[i].ptrs[q] \in map /\ disk[i].ptrs[q] \in Nat
                    /\ disk[i].ptrs[q] \in DOMAIN bytes
  BY DEF InImage
<1>1. InodeSound(map, disk, i) /\ map \subseteq Blk
  BY SoundOwned DEF Sound, SoundImage
<1>2. q \in UsedPtrs(disk[i])
  BY DEF UsedPtrs
<1>3. disk[i].ptrs[q] \in map /\ disk[i].ptrs[q] \in Nat
  <2>1. disk[i].ptrs[q] \in map
    BY <1>1, <1>2 DEF InodeSound
  <2>2. \A b \in map : b \in Nat
    BY <1>1, LayoutAssumption DEF Blk
  <2>. QED BY <2>1, <2>2
<1> DEFINE z == disk[i].size
           N == nblocks(disk[i])
<1>4. z \in Nat
  BY LinkedInode DEF Inode
<1>5. N \in Nat /\ N * BlockSize < z + BlockSize
  BY <1>4, RoundUp, SizesAssumption DEF nblocks
<1>6. q * BlockSize + 0 \in 0 .. z - 1
  <2> HIDE DEF N, z
  <2>1. q \in Nat /\ BlockSize \in Nat /\ (q + 1) * BlockSize <= N * BlockSize
    BY <1>5, SizesAssumption DEF N
  <2>2. (q + 1) * BlockSize = q * BlockSize + BlockSize /\ q * BlockSize \in Nat
        /\ N * BlockSize \in Nat
    BY <1>5, <2>1
  <2>. QED BY <1>4, <1>5, <2>1, <2>2
<1>7. (q * BlockSize + 0) \div BlockSize = q
  <2>1. 0 \in InBlock /\ q \in Nat
    BY <1>5, SizesAssumption DEF InBlock
  <2>. QED BY <2>1, Position
<1>8. HasBytes(disk[i])
  BY DEF FilesWritten
<1>. QED BY <1>3, <1>6, <1>7, <1>8 DEF HasBytes

LEMMA TurnBlkFacts ==
  ASSUME NEW in, NEW buf \in Seq(Bytes), NEW s, s.nread \in 0 .. Len(buf),
         ~(s.nread >= Len(buf)), s.block_offset \in InBlock, NEW o \in InBlock
  PROVE  LET a == s.block_offset
             l == TurnLen(buf, s)
         IN  IF o >= a /\ o < a + l
             THEN /\ s.nread + o - a + 1 \in 1 .. Len(buf)
                  /\ TurnBlk(in, buf, s)[o] = buf[s.nread + o - a + 1]
                  /\ TurnBlk(in, buf, s)[o] \in Bytes
             ELSE TurnBlk(in, buf, s)[o] = block_read(s.bytes, TurnPtr(in, s), s.buffer)[o]
<1> DEFINE N == Len(buf)
           a == s.block_offset
           r == s.nread
           l == TurnLen(buf, s)
<1>1. N \in Nat /\ r \in 0 .. N /\ ~(r >= N) /\ a \in InBlock
  BY LenProperties
<1>2. l \in Nat /\ l >= 1 /\ l <= N - r
  BY <1>1, TurnLenFacts
<1>3. TurnBlk(in, buf, s)[o] =
        IF o \in a .. a + l - 1 THEN buf[r + o - a + 1]
        ELSE block_read(s.bytes, TurnPtr(in, s), s.buffer)[o]
  BY DEF TurnBlk
<1> HIDE DEF N, a, r, l
<1>4. a \in Nat /\ o \in Nat
  BY <1>1, SizesAssumption DEF InBlock
<1>5. o \in a .. a + l - 1 <=> o >= a /\ o < a + l
  BY <1>2, <1>4
<1>6. CASE o >= a /\ o < a + l
  <2>1. r + o - a + 1 \in 1 .. N
    BY <1>1, <1>2, <1>4, <1>6
  <2>2. buf[r + o - a + 1] \in Bytes
    <3> DEFINE k == r + o - a + 1
    <3>1. k \in 1 .. Len(buf)
      BY <2>1 DEF N
    <3> HIDE DEF k
    <3>2. buf[k] \in Bytes
      BY <3>1, ElementOfSeq
    <3>. QED BY <3>2 DEF k
  <2>. QED BY <1>3, <1>5, <1>6, <2>1, <2>2 DEF N, a, r, l
<1>7. CASE ~(o >= a /\ o < a + l)
  BY <1>3, <1>5, <1>7 DEF a, l
<1>. QED BY <1>6, <1>7

LEMMA WSafeGoesOn ==
  ASSUME NEW in, nblocks(in) \in Nat, InImage(in), NEW buf \in Seq(Bytes),
         NEW off \in Nat, NEW n \in Nat, NEW s, WPos(off, Len(buf), n, s), WSafe(s)
  PROVE  WSafe(WriteNext(in, buf, s))
<1> DEFINE t   == WriteNext(in, buf, s)
           ptr == TurnPtr(in, s)
           b0  == TurnBlk(in, buf, s)
<1>1. CASE s.stop \/ s.nread >= Len(buf)
  BY <1>1 DEF WriteNext
<1>2. CASE ~(s.stop \/ s.nread >= Len(buf))
  <2>1. /\ WState(s) /\ s.nread \in 0 .. Len(buf) /\ s.block_num \in Nat
        /\ s.block_offset \in InBlock
    BY DEF WPos
  <2>2. t = write_turn(in, buf, s)
    BY <1>2 DEF WriteNext
  <2> HIDE DEF t
  <2>3. BreaksOff(in, s, t) \/ Copies(in, buf, s, t)
    BY <2>1, <2>2, TurnParts
  <2>4. CASE BreaksOff(in, s, t)
    BY <2>4 DEF BreaksOff, WSafe, t
  <2>5. CASE Copies(in, buf, s, t)
    <3>1. /\ t.bytes = block_write(s.bytes, ptr, b0)
          /\ t.map = IF s.block_num >= nblocks(in) THEN s.map \cup {ptr} ELSE s.map
          /\ ~(ptr < 0)
      BY <2>5 DEF Copies
    <3>2. \/ ptr \in Nat /\ ptr \notin map
          \/ /\ ptr \in Nat /\ ptr \in map /\ ptr \in DOMAIN bytes
             /\ ptr \in DOMAIN s.bytes
      <4>1. CASE s.block_num >= nblocks(in)
        <5>1. ptr = alloc_blk(s.map)
          BY <4>1 DEF TurnPtr
        <5>2. ptr \in Blk /\ ptr \notin s.map
          BY <3>1, <5>1, AllocResult
        <5>3. \A x \in Blk : x \in Nat
          BY LayoutAssumption DEF Blk
        <5>. QED BY <5>2, <5>3 DEF WSafe
      <4>2. CASE ~(s.block_num >= nblocks(in))
        <5>1. ptr = in.ptrs[s.block_num]
          BY <4>2 DEF TurnPtr
        <5>2. s.block_num \in 0 .. nblocks(in) - 1
          <6> DEFINE q == s.block_num
                     N == nblocks(in)
          <6>1. q \in Nat /\ ~(q >= N) /\ N \in Int
            BY <2>1, <4>2
          <6> HIDE DEF q, N
          <6>. QED BY <6>1 DEF q, N
        <5>. QED BY <5>1, <5>2 DEF InImage, WSafe
      <4>. QED BY <4>1, <4>2
    <3>3. ptr \in Nat
      BY <3>2
    <3> HIDE DEF ptr, b0
    <3>4. /\ t.bytes[ptr] = b0 /\ ptr \in DOMAIN t.bytes
          /\ \A c \in DOMAIN s.bytes :
               c \in DOMAIN t.bytes /\ (c # ptr => t.bytes[c] = s.bytes[c])
      BY <3>1, <3>3, BlockWritten
    <3>5. map \subseteq t.map
      BY <3>1 DEF WSafe
    <3>6. ASSUME NEW c \in map, c \in DOMAIN bytes
          PROVE  /\ c \in DOMAIN t.bytes
                 /\ \A o \in InBlock : t.bytes[c][o] = bytes[c][o] \/ t.bytes[c][o] \in Bytes
      <4>1. /\ c \in DOMAIN s.bytes
            /\ \A o \in InBlock : s.bytes[c][o] = bytes[c][o] \/ s.bytes[c][o] \in Bytes
        BY <3>6 DEF WSafe
      <4>2. CASE c # ptr
        BY <3>4, <4>1, <4>2
      <4>3. CASE c = ptr
        <5>1. block_read(s.bytes, ptr, s.buffer) = s.bytes[c]
          BY <4>1, <4>3 DEF block_read
        <5>2. ASSUME NEW o \in InBlock PROVE b0[o] \in Bytes \/ b0[o] = s.bytes[c][o]
          <6>1. \/ TurnBlk(in, buf, s)[o] \in Bytes
                \/ TurnBlk(in, buf, s)[o] =
                     block_read(s.bytes, TurnPtr(in, s), s.buffer)[o]
            BY <1>2, <2>1, TurnBlkFacts
          <6>. QED BY <5>1, <6>1 DEF b0, ptr
        <5>. QED BY <3>4, <4>1, <4>3, <5>2
      <4>. QED BY <4>2, <4>3
    <3>. QED BY <3>5, <3>6 DEF WSafe, t
  <2>. QED BY <2>3, <2>4, <2>5
<1>. QED BY <1>1, <1>2

\* The blocks of the request in inode new are the ones that the calls of
\* alloc_blk give, where the file had none, and all different.
WTarget(in, off, len, g, new) ==
  LET New == NewPtrs(in.size, off, len)
  IN  /\ g \in AllocEach(New)
      /\ \A q \in Touched(off, len) :
           new.ptrs[q] \in Nat /\ new.ptrs[q] = IF q \in New THEN g[q] ELSE in.ptrs[q]
      /\ \A q, r \in Touched(off, len) : new.ptrs[q] = new.ptrs[r] => q = r

\* What the loop has done when it is not broken off: the blocks below the next
\* one are marked, and the bytes copied so far are where new leads to.
WExact(in, off, buf, g, new, s) ==
  /\ s.stop = FALSE
  /\ s.map = bit_set(map, {g[r] : r \in {x \in NewPtrs(in.size, off, Len(buf)) :
                                           x < s.block_num}})
  /\ \A j \in 0 .. s.nread - 1 :
       LET b == new.ptrs[(off + j) \div BlockSize]
       IN  b \in DOMAIN s.bytes /\ s.bytes[b][(off + j) % BlockSize] = buf[j + 1]

LEMMA InTouched ==
  ASSUME NEW off \in Nat, NEW len \in Nat, NEW j \in 0 .. len - 1
  PROVE  (off + j) \div BlockSize \in Touched(off, len)
<1> DEFINE x == (off + j) \div BlockSize
           a == off \div BlockSize
           z == (off + len - 1) \div BlockSize
<1>1. BlockSize \in Nat \ {0} /\ off + j \in Nat /\ off + len - 1 \in Nat /\ len # 0
  BY SizesAssumption
<1>2. /\ a \in Nat /\ a * BlockSize <= off
      /\ x \in Nat /\ x * BlockSize <= off + j /\ off + j < x * BlockSize + BlockSize
      /\ z \in Nat /\ off + len - 1 < z * BlockSize + BlockSize
  BY <1>1, DivFacts
<1>3. Touched(off, len) = a .. z
  BY <1>1 DEF Touched
<1> HIDE DEF x, a, z
<1>4. a * BlockSize \in Int /\ x * BlockSize \in Int /\ z * BlockSize \in Int
  BY <1>1, <1>2
<1>5. a * BlockSize < x * BlockSize + BlockSize /\ x * BlockSize < z * BlockSize + BlockSize
  BY <1>1, <1>2, <1>4
<1>6. a <= x /\ x <= z
  BY <1>1, <1>2, <1>5, LeQuotient
<1>. QED BY <1>2, <1>3, <1>6 DEF x

LEMMA WExactBegins ==
  ASSUME NEW in, NEW off \in Nat, NEW buf, Len(buf) \in Nat, NEW g, NEW new
  PROVE  WExact(in, off, buf, g, new, WriteStart(off))
<1> DEFINE s == WriteStart(off)
           R == {x \in NewPtrs(in.size, off, Len(buf)) : x < s.block_num}
<1>1. /\ s.nread = 0 /\ s.block_num = off \div BlockSize
      /\ s.map = map /\ s.stop = FALSE
  BY DEF WriteStart
<1> HIDE DEF s
<1>2. R = {}
  <2>1. s.block_num \in Nat
    BY <1>1, DivFacts, SizesAssumption
  <2>2. \A x \in Touched(off, Len(buf)) : x \in Int /\ x >= s.block_num
    BY <1>1, <2>1, DivFacts, SizesAssumption DEF Touched
  <2>. QED BY <2>1, <2>2 DEF NewPtrs
<1>3. s.map = bit_set(map, {g[r] : r \in R})
  BY <1>1, <1>2 DEF bit_set
<1>4. 0 .. s.nread - 1 = {}
  BY <1>1
<1> HIDE DEF R
<1>. QED BY <1>1, <1>3, <1>4 DEF WExact, R, s

LEMMA WExactGoesOn ==
  ASSUME NEW in, in.size \in Nat, NEW buf \in Seq(Bytes), NEW off \in Nat, NEW n \in Nat,
         NEW g, NEW new, WTarget(in, off, Len(buf), g, new),
         NEW s, WPos(off, Len(buf), n, s), WExact(in, off, buf, g, new, s)
  PROVE  WExact(in, off, buf, g, new, WriteNext(in, buf, s))
<1> DEFINE N   == Len(buf)
           New == NewPtrs(in.size, off, N)
           t   == WriteNext(in, buf, s)
           q   == s.block_num
           r   == s.nread
           a   == s.block_offset
           l   == TurnLen(buf, s)
           ptr == TurnPtr(in, s)
           b0  == TurnBlk(in, buf, s)
           M   == nblocks(in)
           X   == q * BlockSize
<1>1. CASE s.stop \/ r >= N
  BY <1>1 DEF WriteNext
<1>2. CASE ~(s.stop \/ r >= N)
  <2>1. /\ WState(s) /\ N \in Nat /\ r \in 0 .. N /\ q \in Nat /\ a \in InBlock
        /\ off + r = X + a /\ r \in Nat /\ r < N
    BY <1>2, LenProperties DEF WPos
  <2>2. /\ l \in Nat /\ l >= 1 /\ l <= BlockSize - a /\ l <= N - r
    BY <1>2, <2>1, TurnLenFacts
  <2>3. M \in Nat /\ M = DIV_ROUND_UP(in.size, BlockSize)
    BY RoundUp, SizesAssumption DEF nblocks
  <2>4. t = write_turn(in, buf, s)
    BY <1>2 DEF WriteNext
  <2>5. /\ s.stop = FALSE
        /\ s.map = bit_set(map, {g[x] : x \in {y \in New : y < q}})
        /\ \A j \in 0 .. r - 1 :
             /\ new.ptrs[(off + j) \div BlockSize] \in DOMAIN s.bytes
             /\ s.bytes[new.ptrs[(off + j) \div BlockSize]][(off + j) % BlockSize] =
                  buf[j + 1]
    BY DEF WExact
  <2>6. BreaksOff(in, s, t) \/ Copies(in, buf, s, t)
    <3> HIDE DEF t
    <3>. QED BY <2>1, <2>4, TurnParts
  <2>7. ASSUME NEW o \in InBlock
        PROVE  IF o >= a /\ o < a + l THEN b0[o] = buf[r + o - a + 1]
               ELSE b0[o] = block_read(s.bytes, ptr, s.buffer)[o]
    BY <1>2, <2>1, TurnBlkFacts
  <2>8. /\ g \in AllocEach(New)
        /\ \A x \in Touched(off, N) :
             new.ptrs[x] \in Nat /\ new.ptrs[x] = IF x \in New THEN g[x] ELSE in.ptrs[x]
        /\ \A x, y \in Touched(off, N) : new.ptrs[x] = new.ptrs[y] => x = y
    BY DEF WTarget
  <2>9. ptr = IF q >= M THEN alloc_blk(s.map) ELSE in.ptrs[q]
    BY DEF TurnPtr
  <2>10. New = {x \in Touched(off, N) : x >= M}
    BY <2>3 DEF NewPtrs
  <2> HIDE DEF N, New, t, q, r, a, l, ptr, b0, M
  <2>11. /\ BlockSize \in Nat /\ BlockSize > 0 /\ X \in Nat /\ a \in Nat /\ a < BlockSize
    BY <2>1, SizesAssumption DEF InBlock
  <2>12. (off + r) \div BlockSize = q
    BY <2>1, Position
  <2>13. q \in Touched(off, N)
    <3>1. r \in 0 .. N - 1
      BY <2>1
    <3>2. (off + r) \div BlockSize \in Touched(off, N)
      BY <2>1, <3>1, InTouched
    <3>. QED BY <2>12, <3>2
  <2>14. q \in New <=> q >= M
    BY <2>10, <2>13
  <2>15. ptr = new.ptrs[q] /\ ptr \in Nat
    <3>1. CASE q \in New
      <4>1. g[q] = alloc_blk(bit_set(map, {g[x] : x \in {y \in New : y < q}}))
        BY <2>8, <3>1 DEF AllocEach
      <4>. QED BY <2>5, <2>8, <2>9, <2>13, <2>14, <3>1, <4>1
    <3>2. CASE q \notin New
      BY <2>8, <2>9, <2>13, <2>14, <3>2
    <3>. QED BY <3>1, <3>2
  <2>16. Copies(in, buf, s, t)
    <3>1. ~(ptr < 0)
      BY <2>15
    <3>. QED BY <2>6, <3>1 DEF BreaksOff, ptr
  <2>17. /\ t.stop = FALSE
         /\ t.map = IF q >= M THEN s.map \cup {ptr} ELSE s.map
         /\ t.bytes = block_write(s.bytes, ptr, b0)
         /\ t.nread = r + l /\ t.block_num = q + 1
    <3>1. /\ t.stop = s.stop
          /\ t.map = IF s.block_num >= nblocks(in)
                     THEN s.map \cup {TurnPtr(in, s)} ELSE s.map
          /\ t.bytes = block_write(s.bytes, TurnPtr(in, s), TurnBlk(in, buf, s))
          /\ t.nread = s.nread + TurnLen(buf, s) /\ t.block_num = s.block_num + 1
      BY <2>16 DEF Copies
    <3>. QED BY <2>5, <3>1 DEF q, M, ptr, b0, r, l
  <2>18. /\ t.bytes[ptr] = b0 /\ ptr \in DOMAIN t.bytes
         /\ \A c \in DOMAIN s.bytes :
              c \in DOMAIN t.bytes /\ (c # ptr => t.bytes[c] = s.bytes[c])
    <3>1. t.bytes = block_write(s.bytes, ptr, b0) /\ ptr \in Nat
      BY <2>15, <2>17
    <3>. QED BY ONLY <3>1, BlockWritten
  <2>19. t.map = bit_set(map, {g[x] : x \in {y \in New : y < t.block_num}})
    <3> DEFINE U == {y \in New : y < q}
               V == {y \in New : y < q + 1}
    <3>0. (\A y \in New : y \in Int) /\ q \in Int
      BY <2>1, <2>10 DEF Touched
    <3>1. CASE q \in New
      <4>1. V = U \cup {q}
        <5>1. \A y \in New : y < q + 1 <=> y < q \/ y = q
          BY ONLY <3>0
        <5>. QED BY ONLY <3>1, <5>1
      <4>2. ptr = g[q]
        BY <2>8, <2>13, <2>15, <3>1
      <4>3. t.map = s.map \cup {g[q]} /\ s.map = map \cup {g[x] : x \in U}
        BY <2>5, <2>14, <2>17, <3>1, <4>2 DEF bit_set
      <4>4. {g[x] : x \in V} = {g[x] : x \in U} \cup {g[q]}
        <5> HIDE DEF U, V
        <5>. QED BY <4>1
      <4> HIDE DEF U, V
      <4>5. t.map = map \cup {g[x] : x \in V}
        BY <4>3, <4>4
      <4>. QED BY <2>17, <4>5 DEF bit_set, V
    <3>2. CASE q \notin New
      <4>1. V = U
        BY ONLY <3>0, <3>2
      <4>2. t.map = bit_set(map, {g[x] : x \in U})
        BY <2>5, <2>14, <2>17, <3>2
      <4> HIDE DEF U
      <4>3. t.map = bit_set(map, {g[x] : x \in V})
        BY <4>1, <4>2
      <4>. QED BY <2>17, <4>3
    <3>. QED BY <3>1, <3>2
  <2>20. ASSUME NEW j \in 0 .. (r + l) - 1
         PROVE  /\ new.ptrs[(off + j) \div BlockSize] \in DOMAIN t.bytes
                /\ t.bytes[new.ptrs[(off + j) \div BlockSize]][(off + j) % BlockSize] =
                     buf[j + 1]
    <3> DEFINE k == off + j
               x == k \div BlockSize
               o == k % BlockSize
               b == new.ptrs[x]
    <3>1. k \in Nat /\ j \in 0 .. N - 1 /\ j \in Nat
      BY <2>1, <2>2
    <3>2. x \in Nat /\ o \in InBlock /\ k = x * BlockSize + o
      BY <3>1, PositionOf
    <3>3. CASE j < r
      <4>1. /\ b \in DOMAIN s.bytes
            /\ s.bytes[b][o] = buf[j + 1]
        <5>1. j \in 0 .. r - 1
          BY <2>1, <3>1, <3>3
        <5>. QED BY <2>5, <5>1
      <4>2. CASE b # ptr
        BY <2>18, <4>1, <4>2
      <4>3. CASE b = ptr
        <5>1. x \in Touched(off, N)
          BY <2>1, <3>1, InTouched
        <5> HIDE DEF x, o
        <5>2. x = q
          BY <2>8, <2>13, <2>15, <4>3, <5>1
        <5>3. o \in Nat /\ X + o = off + j
          BY <2>11, <3>2, <5>2 DEF InBlock
        <5>4. ~(o >= a)
          BY <2>1, <2>11, <3>1, <3>3, <5>3
        <5>5. b0[o] = block_read(s.bytes, ptr, s.buffer)[o]
          BY <2>7, <3>2, <5>4
        <5>6. block_read(s.bytes, ptr, s.buffer) = s.bytes[ptr]
          BY <4>1, <4>3 DEF block_read
        <5>7. b \in DOMAIN t.bytes /\ t.bytes[b][o] = buf[j + 1]
          BY <2>18, <4>1, <4>3, <5>5, <5>6
        <5>. QED BY <5>7 DEF x, o
      <4>. QED BY <4>2, <4>3
    <3>4. CASE ~(j < r)
      <4> DEFINE y == a + (j - r)
      <4>1. y \in InBlock /\ y \in Nat /\ y >= a /\ y < a + l /\ k = X + y
            /\ r + y - a + 1 = j + 1
        BY <2>1, <2>2, <2>11, <3>1, <3>4 DEF InBlock
      <4> HIDE DEF y
      <4>2. x = q /\ o = y
        <5>1. (X + y) \div BlockSize = q /\ (X + y) % BlockSize = y
          BY <2>1, <4>1, Position
        <5>. QED BY <4>1, <5>1
      <4> HIDE DEF x, o
      <4>3. b0[y] = buf[r + y - a + 1]
        BY <2>7, <4>1
      <4>4. b0[y] = buf[j + 1]
        BY <4>1, <4>3
      <4>5. b \in DOMAIN t.bytes /\ t.bytes[b][o] = buf[j + 1]
        BY <2>15, <2>18, <4>2, <4>4
      <4>. QED BY <4>5 DEF x, o
    <3>. QED BY <2>1, <3>1, <3>3, <3>4
  <2>21. \A j \in 0 .. t.nread - 1 :
           /\ new.ptrs[(off + j) \div BlockSize] \in DOMAIN t.bytes
           /\ t.bytes[new.ptrs[(off + j) \div BlockSize]][(off + j) % BlockSize] =
                buf[j + 1]
    BY <2>17, <2>20
  <2>. QED BY <2>17, <2>19, <2>21 DEF WExact, t, New, N
<1>. QED BY <1>1, <1>2

\* The whole loop, whether it is broken off or not.
LEMMA LoopSafe ==
  ASSUME NEW in, nblocks(in) \in Nat, InImage(in), NEW buf \in Seq(Bytes), NEW off \in Nat
  PROVE  WSafe(write_loop(in, off, buf))
<1> DEFINE N == Len(buf)
           s == writes(in, off, buf)
           T == {n \in Nat : n <= N => WPos(off, N, n, s[n]) /\ WSafe(s[n])}
<1>1. N \in Nat
  BY LenProperties
<1>2. /\ s[0] = WriteStart(off)
      /\ \A n \in 0 .. N - 1 : s[n + 1] = WriteNext(in, buf, s[n])
      /\ write_loop(in, off, buf) = s[N]
  BY <1>1, Writes
<1> HIDE DEF s
<1>3. 0 \in T
  <2>1. WSafe(WriteStart(off))
    BY DEF WSafe, WriteStart
  <2>. QED BY <1>1, <1>2, <2>1, WPosBegins
<1>4. ASSUME NEW n \in Nat, n \in T PROVE n + 1 \in T
  <2>1. CASE n + 1 <= N
    <3>1. /\ WPos(off, N, n, s[n]) /\ WSafe(s[n])
          /\ s[n + 1] = WriteNext(in, buf, s[n])
      BY <1>1, <1>2, <1>4, <2>1
    <3>2. WPos(off, N, n + 1, s[n + 1]) /\ WSafe(s[n + 1])
      BY <1>1, <3>1, WPosGoesOn, WSafeGoesOn
    <3>. QED BY <3>2
  <2>. QED BY <1>1, <2>1
<1>5. Nat \subseteq T
  <2> HIDE DEF T
  <2>. QED BY <1>3, <1>4, SetInduction
<1>. QED BY <1>1, <1>2, <1>5

\* The whole loop, when there is a block for each of its calls of alloc_blk.
LEMMA LoopExact ==
  ASSUME NEW in, in.size \in Nat, NEW buf \in Seq(Bytes), NEW off \in Nat,
         NEW g, NEW new, WTarget(in, off, Len(buf), g, new)
  PROVE  LET w == write_loop(in, off, buf).bytes
         IN  \A j \in 0 .. Len(buf) - 1 :
               /\ new.ptrs[(off + j) \div BlockSize] \in DOMAIN w
               /\ w[new.ptrs[(off + j) \div BlockSize]][(off + j) % BlockSize] = buf[j + 1]
<1> DEFINE N == Len(buf)
           s == writes(in, off, buf)
           E(n) == WPos(off, N, n, s[n]) /\ WExact(in, off, buf, g, new, s[n])
           T == {n \in Nat : n <= N => E(n)}
<1>1. N \in Nat
  BY LenProperties
<1>2. /\ s[0] = WriteStart(off)
      /\ \A n \in 0 .. N - 1 : s[n + 1] = WriteNext(in, buf, s[n])
      /\ write_loop(in, off, buf) = s[N]
  BY <1>1, Writes
<1> HIDE DEF s
<1>3. 0 \in T
  BY <1>1, <1>2, WPosBegins, WExactBegins
<1>4. ASSUME NEW n \in Nat, n \in T PROVE n + 1 \in T
  <2>1. CASE n + 1 <= N
    <3>1. E(n) /\ s[n + 1] = WriteNext(in, buf, s[n])
      BY <1>1, <1>2, <1>4, <2>1
    <3>2. E(n + 1)
      BY <1>1, <3>1, WPosGoesOn, WExactGoesOn
    <3>. QED BY <3>2
  <2>. QED BY <1>1, <2>1
<1>5. Nat \subseteq T
  <2> HIDE DEF T
  <2>. QED BY <1>3, <1>4, SetInduction
<1>6. E(N)
  BY <1>1, <1>5
<1>7. s[N].nread = N
  <2>1. /\ s[N].nread \in 0 .. N /\ s[N].stop = FALSE
        /\ s[N].stop \/ s[N].nread >= N
    BY <1>1, <1>6 DEF WPos, WExact
  <2>. QED BY <1>1, <2>1
<1>8. \A j \in 0 .. s[N].nread - 1 :
        /\ new.ptrs[(off + j) \div BlockSize] \in DOMAIN s[N].bytes
        /\ s[N].bytes[new.ptrs[(off + j) \div BlockSize]][(off + j) % BlockSize] = buf[j + 1]
  BY <1>6 DEF WExact
<1>. QED BY <1>2, <1>7, <1>8

-----------------------------------------------------------------------------
(***************************************************************************)
(* The other handlers leave every file that has bytes as it is.            *)
(***************************************************************************)
\* The files of e that are not empty are files of d.
Stays(d, e) ==
  \A j \in Linked(e) : e[j].type = "file" /\ e[j].size # 0 =>
    /\ j \in Linked(d) /\ d[j].type = "file"
    /\ d[j].size = e[j].size /\ d[j].ptrs = e[j].ptrs

LEMMA PtrUsed ==
  ASSUME NEW in, in.size \in Nat, NEW k \in 0 .. in.size - 1
  PROVE  k \div BlockSize \in 0 .. nblocks(in) - 1 /\ k % BlockSize \in InBlock
<1> DEFINE q == k \div BlockSize
           N == nblocks(in)
           z == in.size
<1>1. BlockSize \in Nat \ {0} /\ z \in Nat /\ k \in Nat /\ k < z
  BY SizesAssumption
<1>2. q \in Nat /\ q * BlockSize <= k /\ N \in Nat /\ z <= N * BlockSize
  BY <1>1, DivFacts, RoundUp DEF nblocks
<1>3. k % BlockSize \in InBlock
  BY <1>1, PositionOf
<1> HIDE DEF q, N, z
<1>4. q * BlockSize \in Int /\ N * BlockSize \in Int
      /\ (q + 1) * BlockSize = q * BlockSize + BlockSize
  BY <1>1, <1>2
<1>5. (q + 1) * BlockSize < N * BlockSize + BlockSize
  BY <1>1, <1>2, <1>4
<1>6. q + 1 <= N
  BY <1>1, <1>2, <1>5, LeQuotient
<1>. QED BY <1>2, <1>3, <1>6 DEF q, N

\* The block of a byte of a file is marked and holds data.
LEMMA ByteBlock ==
  ASSUME NEW m, NEW d, SoundImage(m, d), NEW j \in Linked(d), d[j].type = "file",
         NEW k \in 0 .. d[j].size - 1
  PROVE  LET b == d[j].ptrs[k \div BlockSize]
         IN  b \in m /\ b \in Blk /\ d[b] = Data
<1> DEFINE q == k \div BlockSize
<1>1. /\ InodeSound(m, d, j) /\ m \subseteq Blk /\ d \in [Blk -> Content]
  BY SoundOwned DEF SoundImage
<1>2. d[j] \in Inode
  BY <1>1, ContentKinds DEF InodeSound
<1>3. q \in UsedPtrs(d[j])
  <2>1. d[j].size \in Nat
    BY <1>2 DEF Inode
  <2>. QED BY <2>1, PtrUsed DEF UsedPtrs
<1> HIDE DEF q
<1>4. d[j].ptrs[q] \in m /\ d[d[j].ptrs[q]].kind = "data"
  BY <1>1, <1>3 DEF InodeSound
<1>. QED BY <1>1, <1>4, ContentKinds DEF q

LEMMA StaysWritten ==
  ASSUME Sound, Sound', FilesWritten, Stays(disk, disk'), NoData
  PROVE  FilesWritten'
<1> SUFFICES ASSUME NEW j \in Linked(disk'), disk'[j].type = "file",
                    NEW k \in 0 .. disk'[j].size - 1
             PROVE  /\ disk'[j].ptrs[k \div BlockSize] \in DOMAIN bytes'
                    /\ bytes'[disk'[j].ptrs[k \div BlockSize]][k % BlockSize] \in Bytes
  BY DEF FilesWritten, HasBytes, ByteAt
<1> DEFINE b == disk'[j].ptrs[k \div BlockSize]
<1>1. SoundImage(map, disk) /\ SoundImage(map', disk')
  BY DEF Sound
<1>2. disk'[j].size # 0
  OBVIOUS
<1>3. /\ j \in Linked(disk) /\ disk[j].type = "file"
      /\ disk[j].size = disk'[j].size /\ disk[j].ptrs = disk'[j].ptrs
  BY <1>2 DEF Stays
<1>4. b \in Blk /\ disk'[b] = Data
  BY <1>1, ByteBlock
<1>5. disk[b] = Data
  BY <1>1, <1>3, ByteBlock
<1>6. b \in DOMAIN bytes /\ bytes[b][k % BlockSize] \in Bytes
  BY <1>3 DEF FilesWritten, HasBytes, ByteAt
<1> HIDE DEF b
<1>7. b \in DOMAIN bytes' /\ bytes'[b] = bytes[b]
  BY <1>4, <1>5, <1>6 DEF NoData
<1>. QED BY <1>6, <1>7 DEF b

LEMMA StaysTrans ==
  ASSUME NEW d, NEW e, NEW f, Stays(d, e), Stays(e, f)
  PROVE  Stays(d, f)
BY DEF Stays

LEMMA StaysSame ==
  ASSUME NEW d
  PROVE  Stays(d, d)
BY DEF Stays

\* An inode is replaced by one with the same bytes, or with none.
LEMMA StaysInode ==
  ASSUME NEW d \in [Blk -> Content], NEW i \in Blk, d[i].kind = "inode",
         NEW in, in.kind = "inode",
         \/ in.type = "file" /\ in.size = 0
         \/ in.type = d[i].type /\ in.size = d[i].size /\ in.ptrs = d[i].ptrs
  PROVE  Stays(d, [d EXCEPT ![i] = in])
<1> DEFINE e == [d EXCEPT ![i] = in]
<1>1. e[i] = in /\ \A j \in Blk : j # i => e[j] = d[j]
  OBVIOUS
<1> HIDE DEF e
<1>2. FewerEntries(d, e)
  BY <1>1 DEF FewerEntries, IsEntry
<1>3. Linked(e) \subseteq Linked(d)
  BY <1>2, FewerLinked
<1>4. Linked(e) \subseteq Blk
  BY LayoutAssumption DEF Linked, RootInum, Blk
<1>. QED BY <1>1, <1>3, <1>4 DEF Stays, e

\* Entries of a directory are emptied or get another name.
LEMMA StaysEnts ==
  ASSUME NEW m, NEW d, SoundImage(m, d), NEW e, NEW b, EntsChanged(d, e, b),
         \A k \in Slots : e[b].ents[k].valid =>
           d[b].ents[k].valid /\ e[b].ents[k].inode = d[b].ents[k].inode
  PROVE  Stays(d, e)
<1>1. FewerEntries(d, e)
  BY DEF FewerEntries, IsEntry, EntsChanged
<1>2. Linked(e) \subseteq Linked(d)
  BY <1>1, FewerLinked
<1>3. ASSUME NEW j \in Linked(d) PROVE e[j] = d[j]
  <2>1. InodeSound(m, d, j) /\ j \in Blk
    BY SoundOwned, LinkedTypes
  <2>. QED BY <2>1 DEF InodeSound, EntsChanged
<1>. QED BY <1>2, <1>3 DEF Stays

\* A file or a directory is made and entered.
LEMMA MadeStays ==
  ASSUME IInv, NEW p \in Paths, create_errno(p) = 0, Made(p)
  PROVE  Stays(disk, disk')
<1> DEFINE b == DirBlkOf(path2inum(Front(p)))
<1>0. PICK i, m, d : NewlyMade(m, d, i) /\ add_entry(p, i, m, d)
  BY DEF Made
<1>1. /\ m = map \cup Owned(d, i) /\ FreshIn(map, disk, d, Owned(d, i))
      /\ SoundImage(m, d) /\ Loose(m, d, i)
      /\ d[i].type = "file" => d[i].size = 0
  BY <1>0 DEF NewlyMade
<1>2. /\ Sound /\ i \in Blk /\ d \in [Blk -> Content]
      /\ InodeSound(m, d, i)
  BY <1>1 DEF IInv, Loose, SoundImage
<1>3. \A c \in map : d[c] = disk[c]
  BY <1>1, <1>2 DEF FreshIn, Sound, SoundImage
<1>4. /\ b \in m
      /\ \/ Return(m, d, -EINVAL)
         \/ \E k \in Slots : \E e :
              EntsChanged(d, e, b) /\ Filled(d, e, b, k, i) /\ Return(m, e, 0)
  BY <1>0, <1>1, <1>2, <1>3, AddShape
<1> HIDE DEF b
<1>5. Stays(disk, d)
  <2>1. Linked(d) = Linked(disk)
    BY <1>1, <1>2, Fresh DEF Sound
  <2>2. \A j \in Linked(d) : d[j] = disk[j]
    BY <1>2, <1>3, <2>1, LinkedInode
  <2>. QED BY <2>1, <2>2 DEF Stays
<1>6. CASE Return(m, d, -EINVAL)
  BY <1>5, <1>6 DEF Return
<1>7. ASSUME NEW k \in Slots, NEW e, EntsChanged(d, e, b), Filled(d, e, b, k, i),
             Return(m, e, 0)
      PROVE  Stays(disk, disk')
  <2>1. Linked(e) = Linked(d) \cup {i}
    BY <1>1, <1>4, <1>7, Attach
  <2>2. ASSUME NEW j \in Linked(d) \cup {i} PROVE e[j] = d[j]
    <3>1. InodeSound(m, d, j) /\ j \in Blk
      BY <1>1, <1>2, SoundOwned, LinkedTypes
    <3>. QED BY <1>7, <3>1 DEF InodeSound, EntsChanged
  <2>3. Stays(d, e)
    BY <1>1, <2>1, <2>2 DEF Stays
  <2>4. Stays(disk, e)
    BY <1>5, <2>3, StaysTrans
  <2>. QED BY <1>7, <2>4 DEF Return
<1>. QED BY <1>4, <1>6, <1>7

\* A file or a directory is removed.
LEMMA RemoveStays ==
  ASSUME IInv, NEW p \in Paths, p # <<>>, NEW now \in Times,
         NEW B, RemovesAll(p, B), remove(p, B, now)
  PROVE  Stays(disk, disk')
<1> DEFINE i   == path2inum(p)
           par == path2inum(Front(p))
           b   == DirBlkOf(par)
           m   == map \ (B \cup {i})
<1>1. Sound /\ i \in Linked(disk)
  BY DEF IInv, RemovesAll
<1>2. PICK k, e, in :
        /\ k \in Slots /\ EntsChanged(disk, e, b) /\ Emptied(disk, e, b, k)
        /\ SameShape(e, par, in)
        /\ Return(m, [e EXCEPT ![par] = in], 0)
  BY <1>1, RemoveShape
<1>3. par \in Linked(disk)
  BY <1>1, RemoveShape
<1> HIDE DEF par, b, m
<1>4. Stays(disk, e)
  <2>1. SoundImage(map, disk)
    BY <1>1 DEF Sound
  <2>2. \A l \in Slots : e[b].ents[l].valid =>
          disk[b].ents[l].valid /\ e[b].ents[l].inode = disk[b].ents[l].inode
    BY <1>2 DEF Emptied
  <2>. QED BY <1>2, <2>1, <2>2, StaysEnts
<1>5. Stays(e, [e EXCEPT ![par] = in])
  <2>1. par \in Blk /\ disk[par].kind = "inode"
    BY <1>1, <1>3, LinkedInode
  <2>2. e \in [Blk -> Content] /\ e[par].kind = "inode"
    BY <1>2, <2>1 DEF EntsChanged
  <2>3. /\ in.kind = "inode"
        /\ in.type = e[par].type /\ in.size = e[par].size /\ in.ptrs = e[par].ptrs
    BY <1>2 DEF SameShape, Inode
  <2>. QED BY <2>1, <2>2, <2>3, StaysInode
<1>6. Stays(disk, [e EXCEPT ![par] = in])
  BY <1>4, <1>5, StaysTrans
<1>. QED BY <1>2, <1>6 DEF Return

\* An inode whose attributes change keeps its bytes.
LEMMA AttrStays ==
  ASSUME Sound, NEW i \in Linked(disk), NEW in, SameShape(disk, i, in),
         Return(map, [disk EXCEPT ![i] = in], 0)
  PROVE  Stays(disk, disk')
<1>1. i \in Blk /\ disk[i].kind = "inode" /\ disk \in [Blk -> Content]
  BY LinkedInode DEF Sound, SoundImage
<1>2. /\ in.kind = "inode"
      /\ in.type = disk[i].type /\ in.size = disk[i].size /\ in.ptrs = disk[i].ptrs
  BY DEF SameShape, Inode
<1>3. disk' = [disk EXCEPT ![i] = in]
  BY DEF Return
<1>. QED BY <1>1, <1>2, <1>3, StaysInode

\* The handlers that write no data.
Quiet ==
  \/ fs_init
  \/ \E p \in Paths, perm \in Perms, now \in Times : fs_create(p, perm, now)
  \/ \E p \in Paths, perm \in Perms, now \in Times : fs_mkdir(p, perm, now)
  \/ \E p \in Paths \ {<<>>}, now \in Times : fs_unlink(p, now)
  \/ \E p \in Paths \ {<<>>}, now \in Times : fs_rmdir(p, now)
  \/ \E p \in Paths, len \in {0} \cup Lengths : fs_truncate(p, len)
  \/ \E p \in Paths, perm \in Perms : fs_chmod(p, perm)
  \/ \E p \in Paths, t \in Times : fs_utime(p, t)
  \/ \E src, dst \in Paths : fs_rename(src, dst)

LEMMA QuietStays ==
  ASSUME IInv, Quiet
  PROVE  Stays(disk, disk')
<1>1. Sound
  BY DEF IInv
<1>2. ASSUME disk' = disk PROVE Stays(disk, disk')
  BY <1>2, StaysSame
<1>3. CASE fs_init
  BY <1>2, <1>3 DEF fs_init
<1>4. ASSUME NEW p \in Paths, NEW perm \in Perms, NEW now \in Times,
             fs_create(p, perm, now)
      PROVE  Stays(disk, disk')
  <2>1. CASE Fail(create_errno(p)) \/ Abort(map, disk)
    BY <1>2, <2>1 DEF Fail, Abort
  <2>. QED BY <1>1, <1>4, <2>1, CreateShape, MadeStays
<1>5. ASSUME NEW p \in Paths, NEW perm \in Perms, NEW now \in Times,
             fs_mkdir(p, perm, now)
      PROVE  Stays(disk, disk')
  <2>1. CASE Fail(create_errno(p)) \/ \E m : Abort(m, disk)
    BY <1>2, <2>1 DEF Fail, Abort
  <2>2. \/ Fail(create_errno(p)) \/ \E m : Abort(m, disk)
        \/ create_errno(p) = 0 /\ Made(p)
    BY <1>1, <1>5, MkdirShape
  <2>. QED BY <2>1, <2>2, MadeStays
<1>6. ASSUME NEW p \in Paths \ {<<>>}, NEW now \in Times, fs_unlink(p, now)
      PROVE  Stays(disk, disk')
  <2>1. CASE Fail(unlink_errno(p))
    BY <1>2, <2>1 DEF Fail
  <2>. QED BY <1>1, <1>6, <2>1, UnlinkShape, RemoveStays
<1>7. ASSUME NEW p \in Paths \ {<<>>}, NEW now \in Times, fs_rmdir(p, now)
      PROVE  Stays(disk, disk')
  <2>1. CASE Fail(rmdir_errno(p))
    BY <1>2, <2>1 DEF Fail
  <2>. QED BY <1>1, <1>7, <2>1, RmdirShape, RemoveStays
<1>8. ASSUME NEW p \in Paths, NEW len, fs_truncate(p, len) PROVE Stays(disk, disk')
  <2> DEFINE i  == path2inum(p)
             in == [disk[i] EXCEPT !.size = 0]
  <2>1. CASE Fail(file_errno(p)) \/ Fail(-EINVAL)
    BY <1>2, <2>1 DEF Fail
  <2>2. CASE /\ file_errno(p) = 0
             /\ Return(free_blk(map, FileBlocks(i)), [disk EXCEPT ![i].size = 0], 0)
    <3>1. i \in Linked(disk) /\ disk[i].type = "file"
      BY <1>1, <2>2, SoundWalkable, FileFound
    <3>2. i \in Blk /\ disk[i] \in Inode /\ disk[i].kind = "inode" /\ disk \in [Blk -> Content]
      BY <1>1, <3>1, LinkedInode DEF Sound, SoundImage
    <3>3. in.kind = "inode" /\ in.type = "file" /\ in.size = 0
      BY <3>1, <3>2 DEF Inode
    <3>4. disk' = [disk EXCEPT ![i] = in]
      BY <2>2 DEF Return
    <3> HIDE DEF i, in
    <3>. QED BY <3>2, <3>3, <3>4, StaysInode
  <2>. QED BY <1>8, <2>1, <2>2 DEF fs_truncate
<1>9. ASSUME NEW src \in Paths, NEW dst \in Paths, fs_rename(src, dst)
      PROVE  Stays(disk, disk')
  <2> DEFINE b == DirBlkOf(path2inum(Front(src)))
  <2>1. CASE Fail(rename_errno(src, dst))
    BY <1>2, <2>1 DEF Fail
  <2>2. \/ Fail(rename_errno(src, dst))
        \/ \E k \in Slots : \E e :
             /\ EntsChanged(disk, e, b)
             /\ Renamed(disk, e, b, k, Last(dst)) /\ Return(map, e, 0)
    BY <1>1, <1>9, RenameShape
  <2> HIDE DEF b
  <2>3. ASSUME NEW k \in Slots, NEW e, EntsChanged(disk, e, b),
               Renamed(disk, e, b, k, Last(dst)), Return(map, e, 0)
        PROVE  Stays(disk, disk')
    <3>1. Stays(disk, e)
      BY <1>1, <2>3, StaysEnts DEF Sound, Renamed
    <3>. QED BY <2>3, <3>1 DEF Return
  <2>. QED BY <2>1, <2>2, <2>3
<1>10. ASSUME NEW p \in Paths, NEW perm \in Perms, fs_chmod(p, perm)
       PROVE  Stays(disk, disk')
  <2> DEFINE i  == path2inum(p)
             in == [disk[i] EXCEPT !.perm = perm]
  <2>1. CASE Fail(-ENOENT)
    BY <1>2, <2>1 DEF Fail
  <2>2. CASE Exists(p) /\ Return(map, [disk EXCEPT ![i].perm = perm], 0)
    <3>1. i \in Linked(disk)
      BY <1>1, <2>2, SoundWalkable, ExistsLinked
    <3>2. SameShape(disk, i, in)
      BY <1>1, <3>1, LinkedInode, SetPerm
    <3>3. Return(map, [disk EXCEPT ![i] = in], 0)
      BY <2>2
    <3> HIDE DEF i, in
    <3>. QED BY <1>1, <3>1, <3>2, <3>3, AttrStays
  <2>. QED BY <1>10, <2>1, <2>2 DEF fs_chmod
<1>11. ASSUME NEW p \in Paths, NEW t \in Times, fs_utime(p, t)
       PROVE  Stays(disk, disk')
  <2> DEFINE i  == path2inum(p)
             in == [disk[i] EXCEPT !.mtime = t]
  <2>1. CASE Fail(file_errno(p))
    BY <1>2, <2>1 DEF Fail
  <2>2. CASE file_errno(p) = 0 /\ Return(map, [disk EXCEPT ![i].mtime = t], 0)
    <3>1. i \in Linked(disk)
      BY <1>1, <2>2, SoundWalkable, FileFound
    <3>2. SameShape(disk, i, in)
      BY <1>1, <3>1, LinkedInode, SetMtime
    <3>3. Return(map, [disk EXCEPT ![i] = in], 0)
      BY <2>2
    <3> HIDE DEF i, in
    <3>. QED BY <1>1, <3>1, <3>2, <3>3, AttrStays
  <2>. QED BY <1>11, <2>1, <2>2 DEF fs_utime
<1>. QED BY <1>3, <1>4, <1>5, <1>6, <1>7, <1>8, <1>9, <1>10, <1>11 DEF Quiet

-----------------------------------------------------------------------------
(***************************************************************************)
(* fs_write.                                                               *)
(***************************************************************************)
\* The bytes w spoil no byte of a file.
Spared(w) ==
  \A b \in map : b \in DOMAIN bytes =>
    /\ b \in DOMAIN w
    /\ \A o \in InBlock : w[b][o] = bytes[b][o] \/ w[b][o] \in Bytes

LEMMA SparedFiles ==
  ASSUME Sound, FilesWritten, NEW w, Spared(w),
         NEW j \in Linked(disk), disk[j].type = "file",
         NEW k \in 0 .. disk[j].size - 1
  PROVE  /\ disk[j].ptrs[k \div BlockSize] \in DOMAIN w
         /\ w[disk[j].ptrs[k \div BlockSize]][k % BlockSize] \in Bytes
<1> DEFINE b == disk[j].ptrs[k \div BlockSize]
<1>1. b \in map
  BY ByteBlock DEF Sound
<1>2. b \in DOMAIN bytes /\ bytes[b][k % BlockSize] \in Bytes
  BY DEF FilesWritten, HasBytes, ByteAt
<1>3. k % BlockSize \in InBlock
  <2>1. disk[j].size \in Nat
    BY LinkedInode DEF Inode
  <2>. QED BY <2>1, PtrUsed
<1> HIDE DEF b
<1>4. b \in DOMAIN w /\ w[b][k % BlockSize] \in Bytes
  BY <1>1, <1>2, <1>3 DEF Spared
<1>. QED BY <1>4 DEF b

\* The inode that a write leaves is the target of its loop.
LEMMA GrownTarget ==
  ASSUME Sound, NEW i \in Linked(disk), disk[i].type = "file",
         NEW off \in Nat, NEW len \in Nat, off <= disk[i].size,
         NEW g \in AllocEach(NewPtrs(disk[i].size, off, len)),
         NEW new, Grown(disk[i], new, g, NewPtrs(disk[i].size, off, len), off, len)
  PROVE  /\ WTarget(disk[i], off, len, g, new)
         /\ \A q \in 0 .. nblocks(disk[i]) - 1 : new.ptrs[q] = disk[i].ptrs[q]
<1> DEFINE New == NewPtrs(disk[i].size, off, len)
           N   == nblocks(disk[i])
           M   == nblocks(new)
<1>1. /\ disk[i] \in Inode /\ i \in Blk /\ disk[i].size \in Nat
      /\ map \subseteq Blk /\ \A b \in Blk : b \in Nat
  BY LinkedInode, LayoutAssumption DEF Sound, SoundImage, Inode, Blk
<1>2. new \in Inode /\ new.type = "file" /\ new.size = NewSize(disk[i].size, off, len)
  BY DEF Grown
<1>3. /\ 0 .. M - 1 = (0 .. N - 1) \cup New
      /\ New \cap (0 .. N - 1) = {}
      /\ Touched(off, len) \subseteq Nat
  BY <1>1, <1>2, WritePtrs DEF nblocks
<1>4. M \in 0 .. NumPtrs /\ N \in 0 .. NumPtrs
  BY <1>1, <1>2, BlocksOfInode
<1>5. 0 .. M - 1 \subseteq PtrIdx
  BY <1>4, SizesAssumption DEF PtrIdx
<1>6. \A q \in Touched(off, len) : q \in New \/ q \in 0 .. N - 1
  BY <1>3, <1>4 DEF NewPtrs, nblocks
<1>7. UsedPtrs(disk[i]) = 0 .. N - 1
  BY DEF UsedPtrs
<1> HIDE DEF N, M
<1>8. \A q \in PtrIdx : new.ptrs[q] = IF q \in New THEN g[q] ELSE disk[i].ptrs[q]
  BY DEF Grown
<1>9. /\ \A q \in 0 .. N - 1 : q \notin New /\ new.ptrs[q] = disk[i].ptrs[q]
      /\ \A q \in New : new.ptrs[q] = g[q]
  BY <1>3, <1>5, <1>8
<1>10. /\ \A q \in New : g[q] \in Blk \ map
       /\ \A q, r \in New : g[q] = g[r] => q = r
  <2>1. New \subseteq Nat
    BY <1>3 DEF NewPtrs
  <2> HIDE DEF New
  <2>. QED BY <1>1, <2>1, AllocEachFacts DEF New
<1>11. /\ \A q \in 0 .. N - 1 : disk[i].ptrs[q] \in map
       /\ \A q, r \in 0 .. N - 1 : disk[i].ptrs[q] = disk[i].ptrs[r] => q = r
  <2>1. InodeSound(map, disk, i) /\ NoSharing(disk)
    BY SoundOwned DEF Sound, SoundImage
  <2>. QED BY <1>7, <2>1 DEF InodeSound, NoSharing
<1> HIDE DEF New
<1>12. \A q \in Touched(off, len) :
         new.ptrs[q] \in Nat /\ new.ptrs[q] = IF q \in New THEN g[q] ELSE disk[i].ptrs[q]
  BY <1>1, <1>6, <1>9, <1>10, <1>11
<1>13. \A q, r \in Touched(off, len) : new.ptrs[q] = new.ptrs[r] => q = r
  BY <1>6, <1>9, <1>10, <1>11
<1>. QED BY <1>9, <1>12, <1>13 DEF WTarget, New, N

\* A write that finds its blocks.
LEMMA WriteFills ==
  ASSUME Sound, FilesWritten, NEW i \in Linked(disk), disk[i].type = "file",
         NEW off \in Nat, NEW buf \in Seq(Bytes), off <= disk[i].size,
         NEW g \in AllocEach(NewPtrs(disk[i].size, off, Len(buf))), NEW new,
         Grown(disk[i], new, g, NewPtrs(disk[i].size, off, Len(buf)), off, Len(buf)),
         disk' = WrittenDisk(i, new, off, Len(buf)),
         bytes' = write_loop(disk[i], off, buf).bytes, Spared(bytes')
  PROVE  FilesWritten'
<1> DEFINE len == Len(buf)
           New == NewPtrs(disk[i].size, off, len)
           G   == Targets(g, New)
<1>1. len \in Nat
  BY LenProperties
<1>2. Written(disk, disk', i, new, G) /\ G \cap map = {}
  <2> HIDE DEF len
  <2>. QED BY <1>1, WriteExtends DEF len
<1>3. /\ i \in Blk /\ disk[i].size \in Nat
  BY LinkedInode DEF Sound, SoundImage, Inode
<1>4. new.kind = "inode" /\ new.size = NewSize(disk[i].size, off, len)
  BY DEF Grown, Inode
<1>5. \A j \in Linked(disk') : j \in Linked(disk) /\ (j # i => disk'[j] = disk[j])
  <2> HIDE DEF G
  <2>1. \A b \in Blk, k \in Slots : IsEntry(disk', b, k) => disk'[b] = disk[b]
    BY <1>2, <1>4 DEF Written, IsEntry, Data
  <2>2. \A j \in Linked(disk') : j \in Linked(disk)
    BY <2>1 DEF Linked, IsEntry
  <2>3. \A j \in Linked(disk) : j \in map /\ j \in Blk
    BY LinkedInode
  <2>. QED BY <1>2, <2>2, <2>3 DEF Written
<1>6. /\ WTarget(disk[i], off, len, g, new)
      /\ \A q \in 0 .. nblocks(disk[i]) - 1 : new.ptrs[q] = disk[i].ptrs[q]
  <2> HIDE DEF len
  <2>. QED BY <1>1, GrownTarget DEF len
<1>7. \A j \in 0 .. len - 1 :
        /\ new.ptrs[(off + j) \div BlockSize] \in DOMAIN bytes'
        /\ bytes'[new.ptrs[(off + j) \div BlockSize]][(off + j) % BlockSize] = buf[j + 1]
  BY <1>3, <1>6, LoopExact
<1> SUFFICES ASSUME NEW j \in Linked(disk'), disk'[j].type = "file",
                    NEW k \in 0 .. disk'[j].size - 1
             PROVE  /\ disk'[j].ptrs[k \div BlockSize] \in DOMAIN bytes'
                    /\ bytes'[disk'[j].ptrs[k \div BlockSize]][k % BlockSize] \in Bytes
  BY DEF FilesWritten, HasBytes, ByteAt
<1>8. CASE j # i
  BY <1>5, <1>8, SparedFiles
<1>9. CASE j = i
  <2>1. disk'[j] = new
    BY <1>2, <1>9 DEF Written
  <2>2. CASE k \in off .. off + len - 1
    <3>1. k - off \in 0 .. len - 1 /\ off + (k - off) = k /\ (k - off) + 1 \in 1 .. len
      BY <1>1, <2>2
    <3>2. buf[(k - off) + 1] \in Bytes
      BY <3>1, ElementOfSeq
    <3>. QED BY <1>7, <2>1, <3>1, <3>2
  <2>3. CASE k \notin off .. off + len - 1
    <3> DEFINE z == disk[i].size
    <3>1. k \in 0 .. NewSize(z, off, len) - 1
      BY <1>4, <2>1
    <3> HIDE DEF z, len
    <3>2. k \in 0 .. z - 1
      BY <1>1, <1>3, <2>3, <3>1 DEF NewSize, z
    <3>3. k \div BlockSize \in 0 .. nblocks(disk[i]) - 1
      BY <1>3, <3>2, PtrUsed DEF z
    <3>4. new.ptrs[k \div BlockSize] = disk[i].ptrs[k \div BlockSize]
      BY <1>6, <3>3
    <3>. QED BY <2>1, <3>2, <3>4, SparedFiles DEF z
  <2>. QED BY <2>2, <2>3
<1>. QED BY <1>8, <1>9

LEMMA WriteWrites ==
  ASSUME Sound, FilesWritten, NEW p \in Paths, NEW off \in Nat,
         NEW buf \in Seq(Bytes), NEW now \in Times, write(p, off, buf, now)
  PROVE  FilesWritten'
<1> DEFINE i == path2inum(p)
<1>1. Len(buf) \in Nat /\ fs_write(p, off, Len(buf), now)
  BY LenProperties DEF write
<1>2. Walkable
  BY SoundWalkable
<1>3. Spared(bytes')
  <2>1. CASE ~write_allowed(p, off, Len(buf))
    BY <2>1 DEF write, Spared
  <2>2. CASE write_allowed(p, off, Len(buf))
    <3>1. i \in Linked(disk) /\ disk[i].type = "file" /\ disk[i].size \in Nat
      BY <1>1, <1>2, <2>2, WriteAllowed
    <3>2. nblocks(disk[i]) \in Nat
      BY <3>1, RoundUp, SizesAssumption DEF nblocks
    <3>3. InImage(disk[i])
      BY <3>1, FilesInImage
    <3>4. bytes' = write_loop(disk[i], off, buf).bytes
      BY <2>2 DEF write
    <3> HIDE DEF i
    <3>5. WSafe(write_loop(disk[i], off, buf))
      BY <3>2, <3>3, LoopSafe
    <3>. QED BY <3>4, <3>5 DEF WSafe, Spared
  <2>. QED BY <2>1, <2>2
<1>4. ASSUME \A j \in Linked(disk') : j \in Linked(disk) /\ disk'[j] = disk[j]
      PROVE  FilesWritten'
  BY <1>3, <1>4, SparedFiles DEF FilesWritten, HasBytes, ByteAt
<1>5. CASE Fail(write_answer(p, off, Len(buf)))
  BY <1>4, <1>5 DEF Fail
<1>6. CASE Abort(map \cup FreeBits(map), FilledDisk)
  <2>1. FreshIn(map, disk, disk', FreeBits(map))
    BY <1>6, WriteAborts DEF Abort
  <2>2. Linked(disk') = Linked(disk)
    BY <2>1, Fresh DEF Sound
  <2>3. \A j \in Linked(disk) : j \in map /\ j \in Blk
    BY LinkedInode
  <2>. QED BY <1>4, <2>1, <2>2, <2>3 DEF FreshIn
<1>7. CASE write_allowed(p, off, Len(buf))
  <2>1. bytes' = write_loop(disk[i], off, buf).bytes
    BY <1>7 DEF write
  <2> DEFINE len == Len(buf)
             New == NewPtrs(disk[i].size, off, len)
  <2>2. ASSUME i \in Linked(disk), disk[i].type = "file", off <= disk[i].size,
               NEW g \in AllocEach(New), NEW new, Grown(disk[i], new, g, New, off, len),
               Return(map \cup Targets(g, New), WrittenDisk(i, new, off, len), len)
        PROVE  FilesWritten'
    <3>1. disk' = WrittenDisk(i, new, off, len)
      BY <2>2 DEF Return
    <3> HIDE DEF i
    <3>. QED BY <1>3, <2>1, <2>2, <3>1, WriteFills
  <2>3. \/ Fail(write_answer(p, off, len))
        \/ up = "mounted" /\ Abort(map \cup FreeBits(map), FilledDisk)
        \/ /\ i \in Linked(disk) /\ disk[i].type = "file" /\ off <= disk[i].size
           /\ \E g \in AllocEach(New) : \E new :
                /\ Grown(disk[i], new, g, New, off, len)
                /\ Return(map \cup Targets(g, New), WrittenDisk(i, new, off, len), len)
    BY <1>1, WriteShape
  <2> HIDE DEF i, New, len
  <2>. QED BY <1>5, <1>6, <2>2, <2>3 DEF len
<1>8. CASE ~write_allowed(p, off, Len(buf))
  BY <1>1, <1>5, <1>8 DEF fs_write
<1>. QED BY <1>7, <1>8

-----------------------------------------------------------------------------
\* A new image has no file.
LEMMA NoFileAtFirst == Init => FilesWritten
<1> SUFFICES ASSUME Init PROVE FilesWritten
  OBVIOUS
<1>1. disk \in [Blk -> Content] /\ disk[RootInum].type = "dir"
  BY InitHolds DEF IInv, Sound, SoundImage, Reserved
<1>2. PICK perm \in Perms, t \in Times : disk = Image(perm, t)
  BY DEF Init
<1>3. \A b \in Blk : disk[b].kind = "dir" => disk[b] = EmptyDir
  BY <1>2 DEF Image, NewInode, Super, BlockMap, Zeros
<1>4. \A b \in Blk, k \in Slots : ~IsEntry(disk, b, k)
  <2>1. \A k \in Slots : ~EmptyDir.ents[k].valid
    BY DEF EmptyDir, EmptySlot
  <2>. QED BY <1>3, <2>1 DEF IsEntry
<1>5. Linked(disk) = {RootInum}
  BY <1>4 DEF Linked
<1>. QED BY <1>1, <1>5 DEF FilesWritten

\* The handlers here are handlers of Fs5600.
LEMMA BNextIsNext == [BNext]_bvars => [Next]_vars
<1>1. ASSUME NEW p \in Paths, NEW off \in Offsets, NEW buf \in Buffers,
             NEW now \in Times, write(p, off, buf, now)
      PROVE  Next
  <2>1. PICK n \in Lengths : buf \in [1 .. n -> Bytes]
    BY DEF Buffers
  <2>2. Len(buf) = n
    BY <2>1, RequestAssumption
  <2>3. fs_write(p, off, n, now)
    BY <1>1, <2>2 DEF write
  <2>. QED BY <2>3 DEF Next
<1>2. ASSUME Quiet PROVE Next
  BY <1>2 DEF Quiet, Next
<1>3. BNext => Quiet \/ Next
  BY <1>1 DEF BNext, Quiet, mount, create, mkdir, unlink, rmdir, truncate, chmod, utime,
                            rename
<1>4. UNCHANGED bvars => UNCHANGED vars
  BY DEF bvars, vars
<1>. QED BY <1>2, <1>3, <1>4

LEMMA FilesStayWritten ==
  IInv /\ FilesWritten /\ [BNext]_bvars => IInv' /\ FilesWritten'
<1> SUFFICES ASSUME IInv, FilesWritten, [BNext]_bvars PROVE IInv' /\ FilesWritten'
  OBVIOUS
<1>1. IInv'
  BY BNextIsNext, StepKeeps
<1>2. Sound /\ Sound'
  BY <1>1 DEF IInv
<1>3. CASE UNCHANGED bvars
  BY <1>1, <1>3 DEF bvars, FilesWritten, HasBytes, ByteAt
<1>4. CASE mount
  BY <1>1, <1>4 DEF mount, fs_init, FilesWritten, HasBytes, ByteAt
<1>5. CASE Quiet /\ NoData
  BY <1>1, <1>2, <1>5, QuietStays, StaysWritten
<1>6. ASSUME NEW p \in Paths, NEW off \in Offsets, NEW buf \in Buffers,
             NEW now \in Times, write(p, off, buf, now)
      PROVE  FilesWritten'
  <2>1. PICK n \in Lengths : buf \in [1 .. n -> Bytes]
    BY DEF Buffers
  <2>2. buf \in Seq(Bytes) /\ off \in Nat
    BY <2>1, RequestAssumption
  <2>. QED BY <1>2, <1>6, <2>2, WriteWrites
<1>7. BNext => \/ mount
               \/ Quiet /\ NoData
               \/ \E p \in Paths, off \in Offsets, buf \in Buffers, now \in Times :
                    write(p, off, buf, now)
  BY DEF BNext, Quiet, create, mkdir, unlink, rmdir, truncate, chmod, utime,
                            rename
<1>. QED BY <1>1, <1>3, <1>4, <1>5, <1>6, <1>7

\* In every state fs_read returns the bytes of the file from the offset on, as
\* many as were asked for or as there are up to its end, and no byte but such
\* as callers wrote: through the inode's pointers, in blocks that earlier files,
\* directories or inodes may have left, after writes that a full disk broke off
\* and after remounts.  Inductive: every byte below the size of a linked file
\* is in the image and was written by a caller.
THEOREM ReadsExact == BSpec => []ReadExact
<1>1. BInit => IInv /\ FilesWritten
  BY InitHolds, NoFileAtFirst DEF BInit
<1>2. IInv /\ FilesWritten /\ [BNext]_bvars => (IInv /\ FilesWritten)'
  BY FilesStayWritten
<1>3. IInv /\ FilesWritten => ReadExact
  BY ReadsRight DEF IInv
<1>. QED BY <1>1, <1>2, <1>3, PTL DEF BSpec
=============================================================================
