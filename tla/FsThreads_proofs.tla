-------------------------- MODULE FsThreads_proofs --------------------------
(***************************************************************************)
(* Theorems about FsThreads, for every number of threads and bits: calls   *)
(* that do not overlap leave the map and the blocks of the image sound,    *)
(* and a call that no other thread disturbs is atomic whatever image it    *)
(* finds.                                                                  *)
(***************************************************************************)
EXTENDS FsThreads, NatLemmas, SequenceTheorems, FiniteSetTheorems

(***************************************************************************)
(* Types.                                                                  *)
(***************************************************************************)
MapCalls == {"alloc_blk", "free_blk"}
Reading  == {"rseek", "read", "read_done"}
ToWrite  == {"wend", "wseek", "write"}

Handlers == MapCalls \cup {"put", "statfs", "split"}
Places   == Reading \cup ToWrite \cup {"write_done", "strtok", "strtok_null", "return"}
Args     == Bits \cup Split
Buffers  == (SUBSET Bits) \cup {Uninit}

Calls ==
  [h      : Handlers,
   pc     : Places,
   arg    : Args,
   lba    : Bits,
   buf    : Buffers,
   err    : Int,
   res    : Int,
   tokens : Seq(Components)]

\* What the handler and the place in it say about the local variables: only
\* a buffer that was filled is written, or counted by fs_statfs.
LocalsOK(c) ==
  /\ c.h # "split" => c.arg \in Bits
  /\ c.h = "split" => c.arg \in Split /\ c.pc \in {"strtok", "strtok_null", "return"}
  /\ c.pc \in Reading => c.h \in MapCalls \cup {"statfs"}
  /\ c.pc \in ToWrite \cup {"write_done"} => c.h \in MapCalls \cup {"put"} /\ c.buf \in SUBSET Bits
  /\ c.pc \in {"strtok", "strtok_null"} => c.h = "split"
  /\ c.pc = "read_done" /\ c.err = 0 => c.buf \in SUBSET Bits

CallOK(c) == c = Idle \/ (c \in Calls /\ LocalsOK(c))

IsImage(f) ==
  /\ DOMAIN f \subseteq Nat /\ Bits \subseteq DOMAIN f
  /\ f \in [DOMAIN f -> SUBSET Bits]

ThreadsTypeOK ==
  /\ IsImage(img)
  /\ off \in Nat
  /\ call \in [Threads -> Calls \cup {Idle}]
  /\ \A t \in Threads : CallOK(call[t])
  /\ saved \in Seq(Components)
  /\ owns \in [Threads -> SUBSET Bits]
  /\ DOMAIN snap = Threads
  /\ \A t \in Threads : snap[t] # None => IsImage(snap[t])
  /\ overlap \in BOOLEAN

(***************************************************************************)
(* Undisturbed calls: what thread t has done to the image it found.        *)
(***************************************************************************)
\* What the call is about to write, and where.
WritesOf(c, m) ==
  CASE c.h = "alloc_blk" -> c.lba = 1 /\ c.arg \in free_bits(m) /\ c.buf = m \cup {c.arg}
    [] c.h = "free_blk"  -> c.lba = 1 /\ c.buf = m \ {c.arg}
    [] OTHER             -> c.lba = c.arg /\ c.buf = {c.arg}

\* The result c.res and the image f that a call leaves, as in
\* IsolatedCallIsAtomic.
Effect(c, s, f) ==
  LET m == s[1]
  IN  CASE c.h = "alloc_blk" ->
             IF Bits \ (m \cup {0, 1, 2}) = {} THEN c.res = -ENOSPC /\ f = s
             ELSE /\ c.res \in Bits \ (m \cup {0, 1, 2})
                  /\ f = [s EXCEPT ![1] = m \cup {c.res}]
        [] c.h = "free_blk" -> f = [s EXCEPT ![1] = m \ {c.arg}]
        [] c.h = "put"      -> f = [s EXCEPT ![c.arg] = {c.arg}]
        [] c.h = "statfs"   -> c.res = Cardinality(m \ {0, 1}) /\ f = s
        [] c.h = "split"    -> c.tokens = c.arg

\* How far a call is that began on image s; the image is f now, the offset o
\* and the rest of the string that strtok works on r.
Progress(c, s, f, o, r) ==
  /\ c.pc \in Reading =>
       /\ f = s
       /\ c.h \in MapCalls => c.lba = 1
       /\ c.h = "statfs" => c.lba \in {0, 1}
       /\ c.pc = "read" => o = c.lba
       /\ c.pc = "read_done" => c.buf = s[c.lba] /\ c.err = 0
  /\ c.pc \in ToWrite => /\ f = s
                         /\ WritesOf(c, s[1])
                         /\ c.pc = "write" => o = c.lba
  /\ c.pc = "write_done" => WritesOf(c, s[1]) /\ f = [s EXCEPT ![c.lba] = c.buf]
  /\ c.pc = "strtok" => c.tokens = <<>>
  /\ c.pc = "strtok_null" => c.tokens \o r = c.arg
  /\ c.pc = "return" => Effect(c, s, f)

Undisturbed ==
  \A t \in Threads :
    InCall(t) /\ snap[t] # None => Progress(call[t], snap[t], img, off, saved)

(***************************************************************************)
(* Calls that do not overlap.                                              *)
(***************************************************************************)
Taken == {0, 1, 2} \cup UNION {owns[t] : t \in Threads}

SerialLocals(t) ==
  LET c == call[t]
  IN  /\ c.pc \in Reading =>
           /\ c.h \in MapCalls => c.lba = 1
           /\ c.h = "statfs" => c.lba \in {0, 1}
           /\ c.h = "free_blk" => c.arg \in owns[t]
           /\ c.pc = "read" => off = c.lba
           /\ c.pc = "read_done" => c.buf = img[c.lba] /\ c.err = 0
      /\ c.pc \in ToWrite \cup {"write_done"} =>
           /\ WritesOf(c, Taken)
           /\ c.h # "alloc_blk" => c.arg \in owns[t]
           /\ c.pc = "write" => off = c.lba
      /\ c.pc = "write_done" =>
           img[1] = IF c.h = "put" THEN Taken ELSE c.buf

Serial ==
  ~overlap =>
    /\ \A t \in Threads : owns[t] \subseteq 3 .. NumBits - 1
    /\ \A t, u \in Threads : t # u => owns[t] \cap owns[u] = {}
    /\ (\A t \in Threads : ~At(t, "write_done")) => img[1] = Taken
    /\ \A t \in Threads : SerialLocals(t)
    /\ \A b \in Bits \ {0, 1} : img[b] \in {{}, {b}}
    /\ img[0] = SuperBits

-----------------------------------------------------------------------------
(***************************************************************************)
(* Type correctness.                                                       *)
(***************************************************************************)
LEMMA BitsFacts == Bits \subseteq Nat /\ {0, 1, 2} \subseteq Bits
BY BitsAssumption DEF Bits

LEMMA FreeBits ==
  ASSUME NEW m \in SUBSET Bits
  PROVE  /\ free_bits(m) = Bits \ (m \cup {0, 1, 2})
         /\ free_bits(m) \subseteq Nat
         /\ free_bits(m) # {} => Min(free_bits(m)) \in free_bits(m)
<1>1. free_bits(m) = Bits \ (m \cup {0, 1, 2})
  BY BitsAssumption DEF Bits, free_bits
<1>2. free_bits(m) \subseteq Nat
  BY <1>1, BitsFacts
<1>. QED BY <1>1, <1>2, MinIn

LEMMA StrtokTypes ==
  ASSUME NEW s \in Seq(Components), s # <<>>
  PROVE  Head(s) \in Components /\ Tail(s) \in Seq(Components)
BY HeadTailProperties, EmptySeq

LEMMA UsedCount ==
  ASSUME NEW m \in SUBSET Bits
  PROVE  /\ m \cap 2 .. NumBits - 1 = m \ {0, 1}
         /\ Cardinality(m \cap 2 .. NumBits - 1) \in Nat
<1>1. m \cap 2 .. NumBits - 1 = m \ {0, 1}
  <2>1. \A b \in m : b \in 2 .. NumBits - 1 <=> b \notin {0, 1}
    BY BitsAssumption DEF Bits
  <2>. QED BY <2>1
<1>2. IsFiniteSet(2 .. NumBits - 1)
  BY FS_Interval, BitsAssumption
<1>3. IsFiniteSet(m \cap 2 .. NumBits - 1)
  BY <1>2, FS_Subset, m \cap 2 .. NumBits - 1 \subseteq 2 .. NumBits - 1
<1>. QED BY <1>1, <1>3, FS_CardinalityType

\* A thread at a place in the code is in a call.
LEMMA InCalls ==
  ASSUME ThreadsTypeOK, NEW t \in Threads, call[t].pc # "idle"
  PROVE  InCall(t) /\ call[t] \in Calls /\ LocalsOK(call[t])
BY DEF ThreadsTypeOK, CallOK, InCall, Idle

\* The record of a new call.
NewCall(h, pc, arg, lba, buf) ==
  [h |-> h, pc |-> pc, arg |-> arg, lba |-> lba, buf |-> buf, err |-> 0,
   res |-> 0, tokens |-> <<>>]

\* Only t's call changes, to c.
Becomes(t, c) ==
  /\ call' = [call EXCEPT ![t] = c]
  /\ call' \in [Threads -> Calls \cup {Idle}]
  /\ call'[t] = c
  /\ \A u \in Threads : u # t => call'[u] = call[u]

LEMMA Changes ==
  ASSUME ThreadsTypeOK, NEW t \in Threads, NEW c \in Calls \cup {Idle},
         call' = [call EXCEPT ![t] = c]
  PROVE  Becomes(t, c)
BY DEF ThreadsTypeOK, Becomes

LEMMA EnterCases ==
  ASSUME ThreadsTypeOK, NEW t \in Threads, Enter(t)
  PROVE  \E c \in Calls :
           /\ LocalsOK(c)
           /\ Becomes(t, c)
           /\ MayBegin(t)
           /\ snap' = [snap EXCEPT ![t] = img]
           /\ UNCHANGED <<img, off, saved, owns, overlap>>
           /\ c.tokens = <<>>
           /\ \/ c.pc = "rseek" /\ c.h \in MapCalls /\ c.lba = 1
                 /\ (c.h = "free_blk" => c.arg \in owns[t])
              \/ c.pc = "rseek" /\ c.h = "statfs" /\ c.lba = 0
              \/ c.pc = "wend" /\ c.h = "put" /\ c.arg \in owns[t]
                 /\ c.lba = c.arg /\ c.buf = {c.arg}
              \/ c.pc = "strtok" /\ c.h = "split"
<1>1. ASSUME NEW h, NEW pc, NEW arg, NEW lba, NEW buf, Begin(t, h, pc, arg, lba, buf),
             NewCall(h, pc, arg, lba, buf) \in Calls
      PROVE  /\ Becomes(t, NewCall(h, pc, arg, lba, buf))
             /\ MayBegin(t)
             /\ snap' = [snap EXCEPT ![t] = img]
             /\ UNCHANGED <<img, off, saved, owns, overlap>>
  BY <1>1, Changes DEF Begin, NewCall
<1>2. <<>> \in Seq(Components)
  BY EmptySeq
<1>3. CASE alloc_begin(t)
  <2> DEFINE c == NewCall("alloc_blk", "rseek", 0, 1, Uninit)
  <2>1. c \in Calls /\ LocalsOK(c)
    BY <1>2, BitsFacts DEF Calls, LocalsOK, MapCalls, Reading, ToWrite, NewCall, Handlers, Places, Args, Buffers
  <2>2. c.pc = "rseek" /\ c.h \in MapCalls /\ c.lba = 1 /\ c.h # "free_blk" /\ c.tokens = <<>>
    BY DEF MapCalls, NewCall
  <2> HIDE DEF c
  <2>. QED BY <1>1, <1>3, <2>1, <2>2 DEF alloc_begin, c
<1>4. CASE \E b \in Bits : free_begin(t, b)
  <2>1. PICK b \in Bits : free_begin(t, b)
    BY <1>4
  <2> DEFINE c == NewCall("free_blk", "rseek", b, 1, Uninit)
  <2>2. c \in Calls /\ LocalsOK(c)
    BY <1>2, BitsFacts DEF Calls, LocalsOK, MapCalls, Reading, ToWrite, NewCall, Handlers, Places, Args, Buffers
  <2>3. /\ c.pc = "rseek" /\ c.h \in MapCalls /\ c.lba = 1 /\ c.tokens = <<>>
        /\ c.arg \in owns[t]
    BY <2>1 DEF MapCalls, NewCall, free_begin
  <2> HIDE DEF c
  <2>. QED BY <1>1, <2>1, <2>2, <2>3 DEF free_begin, c
<1>5. CASE \E b \in Bits : put_begin(t, b)
  <2>1. PICK b \in Bits : put_begin(t, b)
    BY <1>5
  <2> DEFINE c == NewCall("put", "wend", b, b, {b})
  <2>2. c \in Calls /\ LocalsOK(c)
    BY <1>2, BitsFacts DEF Calls, LocalsOK, MapCalls, Reading, ToWrite, NewCall, Handlers, Places, Args, Buffers
  <2>3. /\ c.pc = "wend" /\ c.h = "put" /\ c.arg \in owns[t] /\ c.tokens = <<>>
        /\ c.lba = c.arg /\ c.buf = {c.arg}
    BY <2>1 DEF NewCall, put_begin
  <2> HIDE DEF c
  <2>. QED BY <1>1, <2>1, <2>2, <2>3 DEF put_begin, c
<1>6. CASE statfs_begin(t)
  <2> DEFINE c == NewCall("statfs", "rseek", 0, 0, Uninit)
  <2>1. c \in Calls /\ LocalsOK(c)
    BY <1>2, BitsFacts DEF Calls, LocalsOK, MapCalls, Reading, ToWrite, NewCall, Handlers, Places, Args, Buffers
  <2>2. c.pc = "rseek" /\ c.h = "statfs" /\ c.lba = 0 /\ c.tokens = <<>>
    BY DEF NewCall
  <2> HIDE DEF c
  <2>. QED BY <1>1, <1>6, <2>1, <2>2 DEF statfs_begin, c
<1>7. CASE \E p \in Split : split_begin(t, p)
  <2>1. PICK p \in Split : split_begin(t, p)
    BY <1>7
  <2> DEFINE c == NewCall("split", "strtok", p, 0, Uninit)
  <2>2. c \in Calls /\ LocalsOK(c)
    BY <1>2, BitsFacts DEF Calls, LocalsOK, MapCalls, Reading, ToWrite, NewCall, Handlers, Places, Args, Buffers
  <2>3. c.pc = "strtok" /\ c.h = "split" /\ c.tokens = <<>>
    BY DEF NewCall
  <2> HIDE DEF c
  <2>. QED BY <1>1, <2>1, <2>2, <2>3 DEF split_begin, c
<1>. QED BY <1>3, <1>4, <1>5, <1>6, <1>7 DEF Enter

\* The ways the local variables are assigned.
LEMMA Assigned ==
  ASSUME NEW c \in Calls, NEW pc \in Places
  PROVE  /\ [c EXCEPT !.pc = pc] \in Calls
         /\ \A n \in Int : [c EXCEPT !.err = n, !.pc = pc] \in Calls
         /\ \A n \in Int : [c EXCEPT !.res = n, !.pc = pc] \in Calls
         /\ \A b \in Bits : [c EXCEPT !.lba = b, !.pc = pc] \in Calls
         /\ \A s \in Seq(Components) : [c EXCEPT !.tokens = s, !.pc = pc] \in Calls
         /\ \A x \in SUBSET Bits :
              /\ \A n \in Int : [c EXCEPT !.buf = x, !.err = n, !.pc = pc] \in Calls
              /\ \A b \in Bits : [c EXCEPT !.arg = b, !.buf = x, !.pc = pc] \in Calls
              /\ \A b \in Bits : [c EXCEPT !.lba = b, !.buf = x, !.pc = pc] \in Calls
<1>1. SUBSET Bits \subseteq Buffers /\ Bits \subseteq Args
  BY DEF Buffers, Args
<1>2. /\ [c EXCEPT !.pc = pc] \in Calls
      /\ \A n \in Int : [c EXCEPT !.err = n, !.pc = pc] \in Calls
      /\ \A n \in Int : [c EXCEPT !.res = n, !.pc = pc] \in Calls
      /\ \A b \in Bits : [c EXCEPT !.lba = b, !.pc = pc] \in Calls
      /\ \A s \in Seq(Components) : [c EXCEPT !.tokens = s, !.pc = pc] \in Calls
  BY DEF Calls
<1>3. \A x \in Buffers, n \in Int : [c EXCEPT !.buf = x, !.err = n, !.pc = pc] \in Calls
  BY DEF Calls
<1>4. \A x \in Buffers, b \in Args : [c EXCEPT !.arg = b, !.buf = x, !.pc = pc] \in Calls
  BY DEF Calls
<1>5. \A x \in Buffers, b \in Bits : [c EXCEPT !.lba = b, !.buf = x, !.pc = pc] \in Calls
  BY DEF Calls
<1>. QED BY <1>1, <1>2, <1>3, <1>4, <1>5

LEMMA PlaceNames ==
  /\ "rseek" \in Places /\ "read" \in Places /\ "read_done" \in Places
  /\ "wend" \in Places /\ "wseek" \in Places /\ "write" \in Places
  /\ "write_done" \in Places /\ "strtok_null" \in Places /\ "return" \in Places
BY DEF Places, Reading, ToWrite

LEMMA ZeroInt == 0 \in Int
OBVIOUS

\* Where an IO step of thread t takes its local variables.
LEMMA IOTypes ==
  ASSUME ThreadsTypeOK, NEW t \in Threads, IOStep(t)
  PROVE  /\ InCall(t) /\ call[t] \in Calls /\ LocalsOK(call[t])
         /\ IsImage(img') /\ off' \in Nat
         /\ \E c \in Calls : LocalsOK(c) /\ Becomes(t, c)
<1> DEFINE c == call[t]
<1>1. IsImage(img) /\ off \in Nat /\ call \in [Threads -> Calls \cup {Idle}]
  BY DEF ThreadsTypeOK
<1>2. c.pc \in {"rseek", "read", "wend", "wseek", "write"}
  BY DEF IOStep, read_lseek, read_read, write_lseek_end, write_lseek, write_write, At
<1>3. InCall(t) /\ c \in Calls /\ LocalsOK(c)
  BY <1>2, InCalls
<1>4. c.lba \in Nat /\ c.lba + 1 \in Nat
  <2>1. c.lba \in Bits
    BY <1>3 DEF Calls
  <2>2. c.lba \in Nat
    BY <2>1, BitsFacts
  <2> HIDE DEF c
  <2>. QED BY <2>2
<1>5. ASSUME NEW pc \in {"read", "wseek", "write", "write_done"}, Goto(t, pc),
             pc = "read" => c.pc = "rseek",
             pc # "read" => c.pc \in ToWrite
      PROVE  \E d \in Calls : LocalsOK(d) /\ Becomes(t, d)
  <2> DEFINE d == [c EXCEPT !.pc = pc]
  <2>1. d \in Calls /\ LocalsOK(d)
    <3>1. d \in Calls
      BY <1>3, <1>5, Assigned, PlaceNames
    <3>. QED BY <1>3, <1>5, <3>1 DEF Calls, LocalsOK, Reading, ToWrite
  <2>2. call' = [call EXCEPT ![t] = d]
    BY <1>1, <1>5 DEF Goto
  <2>. QED BY <2>1, <2>2, Changes
<1>6. CASE read_lseek(t)
  BY <1>1, <1>3, <1>4, <1>5, <1>6 DEF read_lseek, At
<1>7. CASE read_read(t)
  <2>1. CASE off \in DOMAIN img
    <3> DEFINE x == img[off]
               d == [c EXCEPT !.buf = x, !.err = 0, !.pc = "read_done"]
    <3>1. x \in SUBSET Bits
      BY <1>1, <2>1 DEF IsImage
    <3>2. d \in Calls /\ LocalsOK(d)
      <4>1. c.pc = "read" /\ c.h # "split"
        BY <1>3, <1>7 DEF LocalsOK, read_read, At, Reading
      <4> HIDE DEF x
      <4>2. d \in Calls
        BY <1>3, <3>1, ZeroInt, PlaceNames, Assigned, Zenon
      <4>. QED BY <1>3, <3>1, <4>1, <4>2 DEF Calls, LocalsOK, Reading, ToWrite
    <3>3. call' = [call EXCEPT ![t] = d] /\ img' = img /\ off' = off + 1
      BY <1>1, <1>7, <2>1 DEF read_read
    <3>4. IsImage(img') /\ off' \in Nat
      <4>1. off + 1 \in Nat
        BY <1>1
      <4>. QED BY <1>1, <3>3, <4>1 DEF IsImage
    <3> HIDE DEF d
    <3>. QED BY <1>3, <3>2, <3>3, <3>4, Changes
  <2>2. CASE off \notin DOMAIN img
    <3> DEFINE d == [c EXCEPT !.err = -EIO, !.pc = "read_done"]
    <3>1. d \in Calls /\ LocalsOK(d)
      <4>1. c.pc = "read" /\ c.h # "split" /\ -EIO \in Int /\ -EIO # 0
        BY <1>3, <1>7 DEF LocalsOK, read_read, At, EIO
      <4>2. d \in Calls
        BY <1>3, <4>1, Assigned, PlaceNames
      <4>. QED BY <1>3, <4>1, <4>2 DEF Calls, LocalsOK, Reading, ToWrite
    <3>2. call' = [call EXCEPT ![t] = d] /\ img' = img /\ off' = off
      BY <1>1, <1>7, <2>2 DEF read_read
    <3>. QED BY <1>1, <1>3, <3>1, <3>2, Changes
  <2>. QED BY <2>1, <2>2
<1>8. CASE write_lseek_end(t)
  BY <1>1, <1>3, <1>4, <1>5, <1>8 DEF write_lseek_end, At, ToWrite
<1>9. CASE write_lseek(t)
  BY <1>1, <1>3, <1>4, <1>5, <1>9 DEF write_lseek, At, ToWrite
<1>10. CASE write_write(t)
  <2>1. c.pc = "write" /\ c.buf \in SUBSET Bits
    BY <1>3, <1>10 DEF write_write, At, LocalsOK, ToWrite
  <2>2. IsImage(img') /\ off' \in Nat
    BY <1>1, <1>10, <2>1 DEF write_write, IsImage
  <2>. QED BY <1>3, <1>5, <1>10, <2>1, <2>2 DEF write_write, ToWrite
<1>. QED BY <1>6, <1>7, <1>8, <1>9, <1>10 DEF IOStep

\* The same for the steps on what was read, and for the return of the result.
LEMMA CallTypes ==
  ASSUME ThreadsTypeOK, NEW t \in Threads,
         \/ alloc_scan(t) \/ free_clear(t) \/ written(t) \/ statfs_next(t)
  PROVE  /\ InCall(t) /\ call[t] \in Calls /\ LocalsOK(call[t])
         /\ owns' \in [Threads -> SUBSET Bits]
         /\ UNCHANGED <<img, off>>
         /\ \E c \in Calls : LocalsOK(c) /\ Becomes(t, c)
<1> DEFINE c == call[t]
<1>1. call \in [Threads -> Calls \cup {Idle}] /\ owns \in [Threads -> SUBSET Bits]
  BY DEF ThreadsTypeOK
<1>2. c.pc \in {"read_done", "write_done"}
  BY DEF alloc_scan, free_clear, written, statfs_next, At
<1>3. InCall(t) /\ c \in Calls /\ LocalsOK(c)
  BY <1>2, InCalls
<1>4. ASSUME NEW r \in Int, Return(t, r), c.h # "split"
      PROVE  \E d \in Calls : LocalsOK(d) /\ Becomes(t, d)
  <2> DEFINE d == [c EXCEPT !.res = r, !.pc = "return"]
  <2>1. d \in Calls /\ LocalsOK(d)
    <3>1. d \in Calls
      BY <1>3, <1>4, Assigned, PlaceNames
    <3>. QED BY <1>3, <1>4, <3>1 DEF Calls, LocalsOK, Reading, ToWrite
  <2>2. call' = [call EXCEPT ![t] = d]
    BY <1>1, <1>4 DEF Return
  <2>. QED BY <2>1, <2>2, Changes
<1>5. Seen(t) \subseteq SUBSET Bits
  BY <1>3 DEF Seen, Calls, Buffers
<1>6. CASE alloc_scan(t)
  <2>1. PICK m \in Seen(t) :
          \/ free_bits(m) = {} /\ Return(t, -ENOSPC)
          \/ /\ free_bits(m) # {}
             /\ LET i == Min(free_bits(m))
                IN  call' = [call EXCEPT ![t].arg = i, ![t].buf = m \cup {i},
                                         ![t].pc = "wend"]
    BY <1>6 DEF alloc_scan
  <2>2. c.h = "alloc_blk" /\ UNCHANGED <<img, off, owns>>
    BY <1>6 DEF alloc_scan
  <2>3. CASE free_bits(m) = {} /\ Return(t, -ENOSPC)
    BY <1>1, <1>3, <1>4, <2>2, <2>3, -ENOSPC \in Int DEF ENOSPC
  <2>4. CASE free_bits(m) # {}
    <3> DEFINE i == Min(free_bits(m))
               d == [c EXCEPT !.arg = i, !.buf = m \cup {i}, !.pc = "wend"]
    <3>1. i \in Bits /\ m \cup {i} \in SUBSET Bits
      <4>1. m \in SUBSET Bits
        BY <1>5
      <4>2. i \in free_bits(m) /\ free_bits(m) \subseteq Bits
        BY <2>4, <4>1, FreeBits
      <4>. QED BY <4>1, <4>2
    <3>2. call' = [call EXCEPT ![t] = d]
      BY <1>1, <2>1, <2>4
    <3> HIDE DEF i
    <3>3. d \in Calls /\ LocalsOK(d)
      <4>1. d \in Calls
        BY <1>3, <2>2, <3>1, Assigned, PlaceNames
      <4>. QED BY <1>3, <2>2, <3>1, <4>1 DEF Calls, LocalsOK, Reading, ToWrite, MapCalls
    <3>. QED BY <1>1, <1>3, <2>2, <3>2, <3>3, Changes
  <2>. QED BY <2>1, <2>3, <2>4
<1>7. CASE free_clear(t)
  <2>1. PICK m \in Seen(t) : WriteNext(t, 1, m \ {call[t].arg})
    BY <1>7 DEF free_clear
  <2>2. c.h = "free_blk" /\ UNCHANGED <<img, off, owns>>
    BY <1>7 DEF free_clear
  <2> DEFINE d == [c EXCEPT !.lba = 1, !.buf = m \ {c.arg}, !.pc = "wend"]
  <2>3. call' = [call EXCEPT ![t] = d]
    BY <1>1, <2>1 DEF WriteNext
  <2>4. d \in Calls /\ LocalsOK(d)
    <3>1. d \in Calls
      BY <1>3, <1>5, <2>2, BitsFacts, Assigned, PlaceNames
    <3>. QED BY <1>3, <1>5, <2>2, BitsFacts, <3>1 DEF Calls, LocalsOK, Reading, ToWrite, MapCalls
  <2>. QED BY <1>1, <1>3, <2>2, <2>3, <2>4, Changes
<1>8. CASE written(t)
  <2>1. c.h \in MapCalls \cup {"put"} /\ c.arg \in Bits /\ c.arg \in Int
    BY <1>3, <1>8, BitsFacts DEF written, At, LocalsOK, MapCalls
  <2>2. owns' \in [Threads -> SUBSET Bits]
    BY <1>1, <1>8, <2>1 DEF written
  <2>. QED BY <1>3, <1>4, <1>8, <2>1, <2>2 DEF written, MapCalls
<1>9. CASE statfs_next(t)
  <2>1. c.h = "statfs" /\ c.pc = "read_done" /\ UNCHANGED <<img, off, owns>>
    BY <1>9 DEF statfs_next, At
  <2>2. CASE c.err # 0 /\ Return(t, -EOPNOTSUPP)
    BY <1>1, <1>3, <1>4, <2>1, <2>2, -EOPNOTSUPP \in Int DEF EOPNOTSUPP
  <2>3. CASE call' = [call EXCEPT ![t].lba = 1, ![t].pc = "rseek"]
    <3> DEFINE d == [c EXCEPT !.lba = 1, !.pc = "rseek"]
    <3>1. call' = [call EXCEPT ![t] = d]
      BY <1>1, <2>3
    <3>2. d \in Calls /\ LocalsOK(d)
      <4>1. d \in Calls
        BY <1>3, <2>1, BitsFacts, Assigned, PlaceNames
      <4>. QED BY <1>3, <2>1, BitsFacts, <4>1 DEF Calls, LocalsOK, Reading, ToWrite, MapCalls
    <3>. QED BY <1>1, <1>3, <2>1, <3>1, <3>2, Changes
  <2>4. CASE c.err = 0 /\ Return(t, Cardinality(call[t].buf \cap 2 .. NumBits - 1))
    <3>1. c.buf \in SUBSET Bits
      BY <1>3, <2>1, <2>4 DEF LocalsOK
    <3>2. Cardinality(c.buf \cap 2 .. NumBits - 1) \in Int
      BY <3>1, UsedCount
    <3>. QED BY <1>1, <1>3, <1>4, <2>1, <2>4, <3>2
  <2>. QED BY <1>9, <2>2, <2>3, <2>4 DEF statfs_next
<1>. QED BY <1>6, <1>7, <1>8, <1>9

LEMMA SplitTypes ==
  ASSUME ThreadsTypeOK, NEW t \in Threads, strtok_first(t) \/ strtok_null(t)
  PROVE  /\ InCall(t) /\ call[t] \in Calls /\ LocalsOK(call[t])
         /\ saved' \in Seq(Components)
         /\ \E c \in Calls : LocalsOK(c) /\ Becomes(t, c)
<1> DEFINE c == call[t]
<1>1. call \in [Threads -> Calls \cup {Idle}] /\ saved \in Seq(Components)
  BY DEF ThreadsTypeOK
<1>2. c.pc \in {"strtok", "strtok_null"}
  BY DEF strtok_first, strtok_null, At
<1>3. InCall(t) /\ c \in Calls /\ LocalsOK(c)
  BY <1>2, InCalls
<1>4. c.h = "split" /\ c.arg \in Seq(Components) /\ c.tokens \in Seq(Components)
  BY <1>2, <1>3, SplitAssumption DEF LocalsOK, Calls
<1>5. PICK s \in Seq(Components) : strtok(t, s, "strtok_null")
  BY <1>1, <1>4 DEF strtok_first, strtok_null
<1>6. CASE s = <<>> /\ Return(t, 0)
  <2> DEFINE d == [c EXCEPT !.res = 0, !.pc = "return"]
  <2>1. d \in Calls /\ LocalsOK(d)
    <3>1. d \in Calls
      BY <1>3, ZeroInt, PlaceNames, Assigned, Zenon
    <3>. QED BY <1>3, <1>4, <3>1 DEF Calls, LocalsOK, Reading, ToWrite
  <2>2. call' = [call EXCEPT ![t] = d]
    BY <1>1, <1>6 DEF Return
  <2>3. saved' \in Seq(Components)
    BY <1>5, <1>6, EmptySeq DEF strtok
  <2> HIDE DEF d
  <2>. QED BY <1>3, <2>1, <2>2, <2>3, Changes
<1>7. CASE s # <<>>
  <2> DEFINE x == Append(c.tokens, Head(s))
             d == [c EXCEPT !.tokens = x, !.pc = "strtok_null"]
  <2>1. x \in Seq(Components) /\ Tail(s) \in Seq(Components)
    BY <1>4, <1>7, StrtokTypes, AppendProperties
  <2>2. call' = [call EXCEPT ![t] = d]
    BY <1>1, <1>5, <1>7 DEF strtok
  <2> HIDE DEF x
  <2>3. d \in Calls /\ LocalsOK(d)
    <3>1. d \in Calls
      BY <1>3, <1>4, <2>1, Assigned, PlaceNames
    <3>. QED BY <1>3, <1>4, <2>1, <3>1 DEF Calls, LocalsOK, Reading, ToWrite
  <2>4. saved' \in Seq(Components)
    BY <1>5, <1>7, <2>1 DEF strtok
  <2> HIDE DEF d
  <2>. QED BY <1>3, <2>2, <2>3, <2>4, Changes
<1>. QED BY <1>5, <1>6, <1>7 DEF strtok

LEMMA StepTypes ==
  ASSUME ThreadsTypeOK, NEW t \in Threads, TStep(t)
  PROVE  /\ InCall(t) /\ call[t] \in Calls /\ LocalsOK(call[t])
         /\ IsImage(img') /\ off' \in Nat
         /\ saved' \in Seq(Components)
         /\ owns' \in [Threads -> SUBSET Bits]
         /\ \E c \in Calls \cup {Idle} : CallOK(c) /\ Becomes(t, c)
<1>1. /\ IsImage(img) /\ off \in Nat /\ saved \in Seq(Components)
      /\ owns \in [Threads -> SUBSET Bits]
  BY DEF ThreadsTypeOK
<1>2. CASE IOStep(t) /\ UNCHANGED <<saved, owns>>
  BY <1>1, <1>2, IOTypes DEF CallOK
<1>3. CASE /\ alloc_scan(t) \/ free_clear(t) \/ written(t) \/ statfs_next(t)
           /\ UNCHANGED saved
  <2>1. /\ InCall(t) /\ call[t] \in Calls /\ LocalsOK(call[t])
        /\ owns' \in [Threads -> SUBSET Bits]
        /\ UNCHANGED <<img, off>>
        /\ \E c \in Calls : LocalsOK(c) /\ Becomes(t, c)
    BY <1>3, CallTypes
  <2>. QED BY <1>1, <1>3, <2>1 DEF CallOK, IsImage
<1>4. CASE (strtok_first(t) \/ strtok_null(t)) /\ UNCHANGED <<img, off, owns>>
  <2>1. /\ InCall(t) /\ call[t] \in Calls /\ LocalsOK(call[t])
        /\ saved' \in Seq(Components)
        /\ \E c \in Calls : LocalsOK(c) /\ Becomes(t, c)
    BY <1>4, SplitTypes
  <2>. QED BY <1>1, <1>4, <2>1 DEF CallOK, IsImage
<1>5. CASE leave(t) /\ UNCHANGED <<img, off, saved, owns>>
  <2>1. InCall(t) /\ call[t] \in Calls /\ LocalsOK(call[t])
    BY <1>5, InCalls DEF leave, At
  <2>2. CallOK(Idle) /\ Becomes(t, Idle)
    BY <1>5, Changes DEF leave, CallOK
  <2>. QED BY <1>1, <1>5, <2>1, <2>2 DEF IsImage
<1>. QED BY <1>2, <1>3, <1>4, <1>5 DEF TStep

\* The block map, the offset and the local variables of every thread keep
\* their types, however the steps of the threads interleave.
THEOREM ThreadsTypes == TSpec => []ThreadsTypeOK
<1>1. ASSUME TInit PROVE ThreadsTypeOK
  <2>1. IsImage(img) /\ off \in Nat
    BY <1>1, BitsAssumption DEF TInit, IOInit, IsImage, Bits
  <2>2. saved \in Seq(Components)
    BY <1>1, EmptySeq DEF TInit
  <2>. QED BY <1>1, <2>1, <2>2 DEF TInit, ThreadsTypeOK, CallOK
<1>2. ASSUME ThreadsTypeOK, NEW t \in Threads, Enter(t) PROVE ThreadsTypeOK'
  <2>1. PICK c \in Calls :
          /\ LocalsOK(c)
          /\ Becomes(t, c)
          /\ snap' = [snap EXCEPT ![t] = img]
          /\ UNCHANGED <<img, off, saved, owns, overlap>>
    BY <1>2, EnterCases
  <2>2. \A u \in Threads : CallOK(call'[u])
    BY <1>2, <2>1 DEF ThreadsTypeOK, CallOK, Becomes
  <2>3. \A u \in Threads : snap'[u] # None => IsImage(snap'[u])
    BY <1>2, <2>1 DEF ThreadsTypeOK
  <2>. QED BY <1>2, <2>1, <2>2, <2>3 DEF ThreadsTypeOK, Becomes, IsImage
<1>3. ASSUME ThreadsTypeOK, NEW t \in Threads, TStep(t) PROVE ThreadsTypeOK'
  <2>1. PICK c \in Calls \cup {Idle} : CallOK(c) /\ Becomes(t, c)
    BY <1>3, StepTypes
  <2>2. \A u \in Threads : CallOK(call'[u])
    BY <1>3, <2>1 DEF ThreadsTypeOK, Becomes
  <2>3. /\ DOMAIN snap' = Threads
        /\ \A u \in Threads : snap'[u] # None => IsImage(snap'[u])
    BY <1>3 DEF ThreadsTypeOK, TStep, Disturb, None
  <2>4. overlap' \in BOOLEAN
    BY <1>3 DEF ThreadsTypeOK, TStep, Disturb
  <2>5. IsImage(img') /\ off' \in Nat /\ saved' \in Seq(Components)
        /\ owns' \in [Threads -> SUBSET Bits]
    BY <1>3, StepTypes
  <2>. QED BY <2>1, <2>2, <2>3, <2>4, <2>5 DEF ThreadsTypeOK, Becomes, IsImage
<1>4. ThreadsTypeOK /\ UNCHANGED tvars => ThreadsTypeOK'
  BY DEF ThreadsTypeOK, tvars, IsImage
<1>5. ThreadsTypeOK /\ [TNext]_tvars => ThreadsTypeOK'
  BY <1>2, <1>3, <1>4 DEF TNext
<1>. QED BY <1>1, <1>5, PTL DEF TSpec

-----------------------------------------------------------------------------
(***************************************************************************)
(* Undisturbed calls.                                                      *)
(***************************************************************************)
\* The call of t moves to place pc; its other variables stay, but for those
\* in the set F.
Moved(c, d, pc, F) ==
  /\ d.pc = pc
  /\ d.h = c.h
  /\ "arg" \notin F => d.arg = c.arg
  /\ "lba" \notin F => d.lba = c.lba
  /\ "buf" \notin F => d.buf = c.buf
  /\ "err" \notin F => d.err = c.err
  /\ "res" \notin F => d.res = c.res
  /\ "tokens" \notin F => d.tokens = c.tokens

LEMMA Moves ==
  ASSUME ThreadsTypeOK, NEW t \in Threads, call[t] \in Calls
  PROVE  /\ \A pc : Goto(t, pc) => Moved(call[t], call'[t], pc, {})
         /\ \A r : Return(t, r) => Moved(call[t], call'[t], "return", {"res"})
                                   /\ call'[t].res = r
         /\ \A x : WriteNext(t, 1, x) => /\ Moved(call[t], call'[t], "wend", {"lba", "buf"})
                                         /\ call'[t].lba = 1 /\ call'[t].buf = x
<1>1. call \in [Threads -> Calls \cup {Idle}]
  BY DEF ThreadsTypeOK
<1>2. \A pc : Goto(t, pc) => Moved(call[t], call'[t], pc, {})
  BY <1>1 DEF Goto, Moved, Calls
<1>3. \A r : Return(t, r) => Moved(call[t], call'[t], "return", {"res"})
                             /\ call'[t].res = r
  BY <1>1 DEF Return, Moved, Calls
<1>4. \A x : WriteNext(t, 1, x) => /\ Moved(call[t], call'[t], "wend", {"lba", "buf"})
                                   /\ call'[t].lba = 1 /\ call'[t].buf = x
  BY <1>1 DEF WriteNext, Moved, Calls
<1>. QED BY <1>2, <1>3, <1>4

\* One IO step of a call that was undisturbed so far, on image s.
LEMMA ProgressIO ==
  ASSUME ThreadsTypeOK, NEW t \in Threads, IOStep(t),
         NEW s, IsImage(s), Progress(call[t], s, img, off, saved)
  PROVE  Progress(call'[t], s, img', off', saved')
<1> DEFINE c == call[t]
           d == call'[t]
<1>1. c \in Calls /\ LocalsOK(c) /\ call \in [Threads -> Calls \cup {Idle}]
  BY IOTypes DEF ThreadsTypeOK
<1>2. c.lba \in Bits /\ c.lba \in DOMAIN s
  BY <1>1 DEF Calls, IsImage
<1>3. Progress(c, s, img, off, saved)
  OBVIOUS
<1>4. CASE read_lseek(t)
  <2>1. Moved(c, d, "read", {}) /\ off' = c.lba /\ img' = img /\ c.pc = "rseek"
    BY <1>1, <1>4, Moves DEF read_lseek, At
  <2> HIDE DEF c, d
  <2>2. Progress(d, s, img', off', saved')
    BY <1>3, <2>1 DEF Progress, Moved, Reading, ToWrite
  <2>. QED BY <2>2 DEF d
<1>5. CASE read_read(t)
  <2>1. c.pc = "read" /\ img' = img /\ img = s /\ off = c.lba
    BY <1>3, <1>5 DEF read_read, At, Progress, Reading
  <2>2. /\ Moved(c, d, "read_done", {"buf", "err"})
        /\ d.buf = s[c.lba] /\ d.err = 0
    BY <1>1, <1>2, <1>5, <2>1 DEF read_read, Moved, Calls
  <2> HIDE DEF c, d
  <2>3. Progress(d, s, img', off', saved')
    BY <1>3, <2>1, <2>2 DEF Progress, Moved, Reading, ToWrite
  <2>. QED BY <2>3 DEF d
<1>6. ASSUME NEW pc, Moved(c, d, pc, {})
      PROVE  WritesOf(c, s[1]) => WritesOf(d, s[1])
  BY <1>6 DEF WritesOf, Moved
<1>7. CASE write_lseek_end(t)
  <2>1. Moved(c, d, "wseek", {}) /\ img' = img /\ c.pc = "wend"
    BY <1>1, <1>7, Moves DEF write_lseek_end, At
  <2> HIDE DEF c, d
  <2>2. Progress(d, s, img', off', saved')
    BY <1>3, <1>6, <2>1 DEF Progress, Moved, Reading, ToWrite
  <2>. QED BY <2>2 DEF d
<1>8. CASE write_lseek(t)
  <2>1. Moved(c, d, "write", {}) /\ img' = img /\ off' = c.lba /\ c.pc = "wseek"
    BY <1>1, <1>8, Moves DEF write_lseek, At
  <2> HIDE DEF c, d
  <2>2. Progress(d, s, img', off', saved')
    BY <1>3, <1>6, <2>1 DEF Progress, Moved, Reading, ToWrite
  <2>. QED BY <2>2 DEF d
<1>9. CASE write_write(t)
  <2>1. Moved(c, d, "write_done", {}) /\ c.pc = "write"
    BY <1>1, <1>9, Moves DEF write_write, At
  <2>2. img = s /\ WritesOf(c, s[1]) /\ off = c.lba
    BY <1>3, <2>1 DEF Progress, ToWrite
  <2>3. img' = [s EXCEPT ![c.lba] = c.buf]
    <3>1. img' = [b \in DOMAIN s \cup {c.lba} |-> IF b = c.lba THEN c.buf ELSE s[b]]
      BY <1>9, <2>2 DEF write_write
    <3>2. DOMAIN s \cup {c.lba} = DOMAIN s
      BY <1>2
    <3> HIDE DEF c
    <3>. QED BY <3>1, <3>2 DEF IsImage
  <2> HIDE DEF c, d
  <2>4. Progress(d, s, img', off', saved')
    BY <1>6, <2>1, <2>2, <2>3 DEF Progress, Moved, Reading, ToWrite
  <2>. QED BY <2>4 DEF d
<1>. QED BY <1>4, <1>5, <1>7, <1>8, <1>9 DEF IOStep

\* One step on what such a call has read, or its return.
LEMMA ProgressCall ==
  ASSUME ThreadsTypeOK, NEW t \in Threads,
         alloc_scan(t) \/ free_clear(t) \/ written(t) \/ statfs_next(t),
         NEW s, IsImage(s), Progress(call[t], s, img, off, saved)
  PROVE  Progress(call'[t], s, img', off', saved')
<1> DEFINE c == call[t]
           d == call'[t]
           m == s[1]
<1>1. c \in Calls /\ LocalsOK(c) /\ call \in [Threads -> Calls \cup {Idle}] /\ img' = img
  BY CallTypes DEF ThreadsTypeOK
<1>2. Progress(c, s, img, off, saved)
  OBVIOUS
<1>3. m \in SUBSET Bits
  BY BitsFacts DEF IsImage
<1>4. ASSUME c.pc = "read_done"
      PROVE  /\ img = s /\ c.err = 0 /\ c.buf = s[c.lba]
             /\ c.h \in MapCalls => Seen(t) = {m}
  <2>1. img = s /\ c.err = 0 /\ c.buf = s[c.lba] /\ (c.h \in MapCalls => c.lba = 1)
    BY <1>2, <1>4 DEF Progress, Reading
  <2>2. c.h \in MapCalls => c.buf # Uninit /\ c.buf = m
    BY <1>3, <2>1, UninitAssumption
  <2>. QED BY <2>1, <2>2 DEF Seen
<1>5. CASE alloc_scan(t)
  <2>1. c.pc = "read_done" /\ c.h = "alloc_blk"
    BY <1>5 DEF alloc_scan, At
  <2>2. img = s /\ c.lba = 1 /\ Seen(t) = {m}
    BY <1>2, <1>4, <2>1 DEF Progress, Reading, MapCalls
  <2>3. CASE free_bits(m) = {}
    <3>1. Moved(c, d, "return", {"res"}) /\ d.res = -ENOSPC
      BY <1>1, <1>5, <2>2, <2>3, Moves DEF alloc_scan
    <3>2. Bits \ (m \cup {0, 1, 2}) = {}
      BY <1>3, <2>3, FreeBits
    <3> HIDE DEF c, d
    <3>3. Effect(d, s, img')
      BY <1>1, <2>1, <2>2, <3>1, <3>2 DEF Effect, Moved
    <3>4. Progress(d, s, img', off', saved')
      BY <3>1, <3>3 DEF Progress, Moved, Reading, ToWrite
    <3>. QED BY <3>4 DEF d
  <2>4. CASE free_bits(m) # {}
    <3> DEFINE i == Min(free_bits(m))
    <3>1. i \in free_bits(m)
      BY <1>3, <2>4, FreeBits
    <3>2. call' = [call EXCEPT ![t].arg = i, ![t].buf = m \cup {i}, ![t].pc = "wend"]
      BY <1>5, <2>2, <2>4 DEF alloc_scan
    <3> HIDE DEF i
    <3>3. /\ Moved(c, d, "wend", {"arg", "buf"})
          /\ d.arg = i /\ d.buf = m \cup {i}
      BY <1>1, <3>2 DEF Moved, Calls
    <3> HIDE DEF c, d, m
    <3>4. WritesOf(d, m)
      BY <2>1, <2>2, <3>1, <3>3 DEF WritesOf, Moved
    <3>5. Progress(d, s, img', off', saved')
      BY <1>1, <2>2, <3>3, <3>4 DEF Progress, Moved, Reading, ToWrite, m
    <3>. QED BY <3>5 DEF d
  <2>. QED BY <2>3, <2>4
<1>6. CASE free_clear(t)
  <2>1. c.pc = "read_done" /\ c.h = "free_blk"
    BY <1>6 DEF free_clear, At
  <2>2. img = s /\ Seen(t) = {m}
    BY <1>4, <2>1 DEF MapCalls
  <2>3. WriteNext(t, 1, m \ {c.arg})
    BY <1>6, <2>2 DEF free_clear
  <2>4. /\ Moved(c, d, "wend", {"lba", "buf"})
        /\ d.lba = 1 /\ d.buf = m \ {c.arg}
    BY <1>1, <2>3, Moves
  <2> HIDE DEF c, d, m
  <2>5. WritesOf(d, m)
    BY <2>1, <2>4 DEF WritesOf, Moved
  <2>6. Progress(d, s, img', off', saved')
    BY <1>1, <2>2, <2>4, <2>5 DEF Progress, Moved, Reading, ToWrite, m
  <2>. QED BY <2>6 DEF d
<1>7. CASE written(t)
  <2>1. /\ c.pc = "write_done" /\ Moved(c, d, "return", {"res"}) /\ d.res = c.arg
    BY <1>1, <1>7, Moves DEF written, At
  <2>2. c.h \in MapCalls \cup {"put"}
    BY <1>1, <2>1 DEF LocalsOK
  <2>3. WritesOf(c, m) /\ img = [s EXCEPT ![c.lba] = c.buf]
    BY <1>2, <2>1 DEF Progress
  <2>4. Effect(d, s, img')
    <3>1. free_bits(m) = Bits \ (m \cup {0, 1, 2})
      BY <1>3, FreeBits
    <3> HIDE DEF c, d, m
    <3>2. CASE c.h = "alloc_blk"
      <4>1. c.lba = 1 /\ c.arg \in free_bits(m) /\ c.buf = m \cup {c.arg}
        BY <2>3, <3>2 DEF WritesOf
      <4>2. img' = [s EXCEPT ![1] = m \cup {d.res}] /\ d.res \in Bits \ (m \cup {0, 1, 2})
        BY <1>1, <2>1, <2>3, <3>1, <4>1
      <4>. QED BY <2>1, <3>2, <4>2 DEF Effect, Moved, m
    <3>3. CASE c.h = "free_blk"
      BY <1>1, <2>1, <2>3, <3>3 DEF Effect, Moved, WritesOf, m
    <3>4. CASE c.h = "put"
      BY <1>1, <2>1, <2>3, <3>4 DEF Effect, Moved, WritesOf, m
    <3>. QED BY <2>2, <3>2, <3>3, <3>4 DEF MapCalls
  <2> HIDE DEF c, d
  <2>5. Progress(d, s, img', off', saved')
    BY <2>1, <2>4 DEF Progress, Moved, Reading, ToWrite
  <2>. QED BY <2>5 DEF d
<1>8. CASE statfs_next(t)
  <2>1. c.pc = "read_done" /\ c.h = "statfs"
    BY <1>8 DEF statfs_next, At
  <2>2. img = s /\ c.err = 0 /\ c.buf = s[c.lba]
    BY <1>4, <2>1
  <2>3. CASE c.lba = 0
    <3>1. Moved(c, d, "rseek", {"lba"}) /\ d.lba = 1
      BY <1>1, <1>8, <2>2, <2>3 DEF statfs_next, Moved, Calls
    <3> HIDE DEF c, d
    <3>2. Progress(d, s, img', off', saved')
      BY <1>1, <2>1, <2>2, <3>1 DEF Progress, Moved, Reading, ToWrite, MapCalls
    <3>. QED BY <3>2 DEF d
  <2>4. CASE c.lba = 1
    <3>1. /\ Moved(c, d, "return", {"res"})
          /\ d.res = Cardinality(c.buf \cap 2 .. NumBits - 1)
      <4>1. Return(t, Cardinality(c.buf \cap 2 .. NumBits - 1))
        BY <1>8, <2>2, <2>4 DEF statfs_next
      <4>. QED BY <1>1, <4>1, Moves
    <3>2. d.res = Cardinality(m \ {0, 1})
      BY <1>3, <2>2, <2>4, <3>1, UsedCount
    <3> HIDE DEF c, d
    <3>3. Effect(d, s, img')
      BY <1>1, <2>1, <2>2, <3>1, <3>2 DEF Effect, Moved
    <3>4. Progress(d, s, img', off', saved')
      BY <3>1, <3>3 DEF Progress, Moved, Reading, ToWrite
    <3>. QED BY <3>4 DEF d
  <2>. QED BY <1>8, <2>2, <2>3, <2>4 DEF statfs_next
<1>. QED BY <1>5, <1>6, <1>7, <1>8

LEMMA Rejoin ==
  ASSUME NEW x \in Seq(Components), NEW s \in Seq(Components), s # <<>>
  PROVE  Append(x, Head(s)) \o Tail(s) = x \o s
<1>1. s = <<Head(s)>> \o Tail(s) /\ Head(s) \in Components /\ Tail(s) \in Seq(Components)
  BY HeadTailProperties, EmptySeq, ConcatSimplifications
<1>2. Append(x, Head(s)) = x \o <<Head(s)>> /\ <<Head(s)>> \in Seq(Components)
  BY <1>1, AppendIsConcat
<1>3. (x \o <<Head(s)>>) \o Tail(s) = x \o (<<Head(s)>> \o Tail(s))
  BY <1>1, <1>2, ConcatAssociative
<1>. QED BY <1>1, <1>2, <1>3

\* One call of strtok.
LEMMA ProgressSplit ==
  ASSUME ThreadsTypeOK, NEW t \in Threads, strtok_first(t) \/ strtok_null(t),
         NEW s, Progress(call[t], s, img, off, saved)
  PROVE  Progress(call'[t], s, img', off', saved')
<1> DEFINE c == call[t]
           d == call'[t]
<1>1. c \in Calls /\ LocalsOK(c) /\ call \in [Threads -> Calls \cup {Idle}]
  BY SplitTypes DEF ThreadsTypeOK
<1>2. c.pc \in {"strtok", "strtok_null"}
  BY DEF strtok_first, strtok_null, At
<1>3. /\ c.h = "split" /\ c.arg \in Seq(Components) /\ c.tokens \in Seq(Components)
      /\ saved \in Seq(Components)
  BY <1>1, <1>2, SplitAssumption DEF LocalsOK, Calls, ThreadsTypeOK
<1>4. PICK r \in Seq(Components) : strtok(t, r, "strtok_null") /\ c.tokens \o r = c.arg
  <2>1. CASE strtok_first(t)
    <3>1. c.pc = "strtok" /\ strtok(t, c.arg, "strtok_null")
      BY <2>1 DEF strtok_first, At
    <3>2. c.tokens = <<>>
      BY <3>1 DEF Progress
    <3>3. <<>> \o c.arg = c.arg
      BY <1>3, ConcatEmptySeq
    <3>. QED BY <1>3, <3>1, <3>2, <3>3
  <2>2. CASE strtok_null(t)
    BY <1>3, <2>2 DEF strtok_null, At, Progress
  <2>. QED BY <2>1, <2>2
<1>5. CASE r = <<>>
  <2>1. Return(t, 0)
    BY <1>4, <1>5 DEF strtok
  <2>2. Moved(c, d, "return", {"res"})
    BY <1>1, <2>1, Moves
  <2>3. c.tokens = c.arg
    BY <1>3, <1>4, <1>5, ConcatEmptySeq
  <2> HIDE DEF c, d
  <2>4. Effect(d, s, img')
    BY <1>3, <2>2, <2>3 DEF Effect, Moved
  <2>5. Progress(d, s, img', off', saved')
    BY <2>2, <2>4 DEF Progress, Moved, Reading, ToWrite
  <2>. QED BY <2>5 DEF d
<1>6. CASE r # <<>>
  <2> DEFINE x == Append(c.tokens, Head(r))
  <2>1. call' = [call EXCEPT ![t].tokens = x, ![t].pc = "strtok_null"] /\ saved' = Tail(r)
    BY <1>1, <1>4, <1>6 DEF strtok
  <2>2. x \o Tail(r) = c.arg
    BY <1>3, <1>4, <1>6, Rejoin
  <2> HIDE DEF x
  <2>3. Moved(c, d, "strtok_null", {"tokens"}) /\ d.tokens = x
    BY <1>1, <2>1 DEF Moved, Calls
  <2> HIDE DEF c, d
  <2>4. Progress(d, s, img', off', saved')
    BY <2>1, <2>2, <2>3 DEF Progress, Moved, Reading, ToWrite
  <2>. QED BY <2>4 DEF d
<1>. QED BY <1>5, <1>6

\* A call begins on the image as it is.
LEMMA ProgressBegin ==
  ASSUME ThreadsTypeOK, NEW t \in Threads, Enter(t)
  PROVE  Progress(call'[t], img, img', off', saved')
<1>1. PICK c \in Calls :
        /\ Becomes(t, c)
        /\ UNCHANGED <<img, off, saved, owns, overlap>>
        /\ c.tokens = <<>>
        /\ \/ c.pc = "rseek" /\ c.h \in MapCalls /\ c.lba = 1
           \/ c.pc = "rseek" /\ c.h = "statfs" /\ c.lba = 0
           \/ c.pc = "wend" /\ c.h = "put" /\ c.lba = c.arg /\ c.buf = {c.arg}
           \/ c.pc = "strtok" /\ c.h = "split"
  BY EnterCases
<1>2. Progress(c, img, img, off, saved)
  <2>1. CASE c.pc = "rseek" /\ c.h \in MapCalls /\ c.lba = 1
    BY <2>1 DEF Progress, Reading, ToWrite, MapCalls
  <2>2. CASE c.pc = "rseek" /\ c.h = "statfs" /\ c.lba = 0
    BY <2>2 DEF Progress, Reading, ToWrite, MapCalls
  <2>3. CASE c.pc = "wend" /\ c.h = "put" /\ c.lba = c.arg /\ c.buf = {c.arg}
    BY <2>3 DEF Progress, Reading, ToWrite, WritesOf
  <2>4. CASE c.pc = "strtok" /\ c.h = "split"
    BY <1>1, <2>4 DEF Progress, Reading, ToWrite
  <2>. QED BY <1>1, <2>1, <2>2, <2>3, <2>4
<1>. QED BY <1>1, <1>2 DEF Becomes

LEMMA UndisturbedStep ==
  ASSUME ThreadsTypeOK, Undisturbed, [TNext]_tvars
  PROVE  Undisturbed'
<1>1. CASE UNCHANGED tvars
  BY <1>1 DEF tvars, Undisturbed, InCall
<1>2. ASSUME NEW t \in Threads, Enter(t) PROVE Undisturbed'
  <2>1. PICK c \in Calls :
          /\ Becomes(t, c)
          /\ snap' = [snap EXCEPT ![t] = img]
          /\ UNCHANGED <<img, off, saved>>
    BY <1>2, EnterCases
  <2>2. \A u \in Threads : u # t => call'[u] = call[u] /\ snap'[u] = snap[u]
    BY <2>1 DEF Becomes, ThreadsTypeOK
  <2>3. snap'[t] = img
    BY <2>1 DEF ThreadsTypeOK
  <2>4. Progress(call'[t], snap'[t], img', off', saved')
    BY <1>2, <2>3, ProgressBegin
  <2>. QED BY <2>1, <2>2, <2>4 DEF Undisturbed, InCall
<1>3. ASSUME NEW t \in Threads, TStep(t) PROVE Undisturbed'
  <2>1. snap'[t] = snap[t] /\ \A u \in Threads : u # t => snap'[u] = None
    BY <1>3 DEF TStep, Disturb
  <2>2. SUFFICES ASSUME call'[t] # Idle, snap[t] # None
                 PROVE  Progress(call'[t], snap[t], img', off', saved')
    BY <2>1 DEF Undisturbed, InCall
  <2>3. IsImage(snap[t]) /\ Progress(call[t], snap[t], img, off, saved)
    BY <1>3, <2>2, StepTypes DEF Undisturbed, ThreadsTypeOK
  <2>4. ~leave(t)
    BY <2>2 DEF leave, ThreadsTypeOK
  <2>5. CASE IOStep(t)
    BY <2>3, <2>5, ProgressIO
  <2>6. CASE alloc_scan(t) \/ free_clear(t) \/ written(t) \/ statfs_next(t)
    BY <2>3, <2>6, ProgressCall
  <2>7. CASE strtok_first(t) \/ strtok_null(t)
    BY <2>3, <2>7, ProgressSplit
  <2>. QED BY <1>3, <2>4, <2>5, <2>6, <2>7 DEF TStep
<1>. QED BY <1>1, <1>2, <1>3 DEF TNext

\* alloc_blk, free_blk, fs_statfs, the splitting of a path and the writing of
\* an owned block are atomic when no other thread takes a step in between,
\* whatever the image, the file offset and strtok's position are by then.
THEOREM IsolatedCalls == TSpec => []IsolatedCallIsAtomic
<1>1. TInit => Undisturbed
  BY DEF TInit, Undisturbed, InCall
<1>2. Undisturbed => IsolatedCallIsAtomic
  <2> SUFFICES ASSUME Undisturbed, NEW t \in Threads, At(t, "return"), snap[t] # None
               PROVE  Effect(call[t], snap[t], img)
    BY DEF IsolatedCallIsAtomic, Effect
  <2>1. InCall(t)
    BY DEF InCall, At, Idle
  <2>. QED BY <2>1 DEF Undisturbed, Progress, At
<1>3. TSpec => []ThreadsTypeOK
  BY ThreadsTypes
<1>. QED BY <1>1, <1>2, <1>3, UndisturbedStep, PTL DEF TSpec

-----------------------------------------------------------------------------
(***************************************************************************)
(* Calls that do not overlap.                                              *)
(***************************************************************************)
\* A step after which calls have not overlapped is the step of the only
\* thread in a call.
LEMMA Alone ==
  ASSUME ThreadsTypeOK, Serial, NEW t \in Threads, TStep(t), ~overlap'
  PROVE  /\ ~overlap
         /\ \A u \in Threads : u # t => call[u] = Idle /\ call'[u] = Idle
         /\ call[t].pc # "write_done" => img[1] = Taken
         /\ SerialLocals(t)
         /\ owns[t] \subseteq 3 .. NumBits - 1
<1>1. ~overlap /\ \A u \in Threads : u # t => call[u] = Idle
  BY DEF TStep, Disturb, InCall
<1>2. \A u \in Threads : u # t => call'[u] = Idle
  BY <1>1, StepTypes DEF Becomes
<1>3. call[t].pc # "write_done" => \A u \in Threads : ~At(u, "write_done")
  BY <1>1 DEF At, Idle
<1>. QED BY <1>1, <1>2, <1>3 DEF Serial

\* What is left to show of a step of that thread.
LEMMA SerialSuffices ==
  ASSUME NEW t \in Threads,
         \A u \in Threads : u # t => call'[u] = Idle,
         \A u \in Threads : owns'[u] \subseteq 3 .. NumBits - 1,
         \A u, v \in Threads : u # v => owns'[u] \cap owns'[v] = {},
         call'[t].pc # "write_done" => img'[1] = Taken',
         SerialLocals(t)',
         \A b \in Bits \ {0, 1} : img'[b] \in {{}, {b}},
         img'[0] = SuperBits
  PROVE  Serial'
<1>1. \A u \in Threads : SerialLocals(u)'
  BY DEF SerialLocals, Idle, Reading, ToWrite
<1>2. (\A u \in Threads : ~At(u, "write_done"))' => img'[1] = Taken'
  BY DEF At
<1>. QED BY <1>1, <1>2 DEF Serial

\* A step that changes neither the image nor what the threads own.
LEMMA SerialLocal ==
  ASSUME ThreadsTypeOK, Serial, NEW t \in Threads, TStep(t), ~overlap',
         UNCHANGED <<img, owns>>,
         call[t].pc # "write_done",
         SerialLocals(t)'
  PROVE  Serial'
<1>1. Taken' = Taken
  BY DEF Taken
<1>2. /\ ~overlap
      /\ \A u \in Threads : u # t => call'[u] = Idle
      /\ img[1] = Taken
  BY Alone
<1>3. /\ \A u \in Threads : owns'[u] \subseteq 3 .. NumBits - 1
      /\ \A u, v \in Threads : u # v => owns'[u] \cap owns'[v] = {}
      /\ \A b \in Bits \ {0, 1} : img'[b] \in {{}, {b}}
      /\ img'[0] = SuperBits
  BY <1>2 DEF Serial
<1>4. img'[1] = Taken'
  BY <1>1, <1>2
<1>. QED BY <1>2, <1>3, <1>4, SerialSuffices

LEMMA SerialIO ==
  ASSUME ThreadsTypeOK, Serial, NEW t \in Threads, TStep(t), ~overlap',
         IOStep(t), UNCHANGED owns
  PROVE  Serial'
<1> DEFINE c == call[t]
           d == call'[t]
<1>1. /\ c \in Calls /\ LocalsOK(c) /\ call \in [Threads -> Calls \cup {Idle}]
      /\ IsImage(img)
  BY IOTypes DEF ThreadsTypeOK
<1>2. c.lba \in Bits
  BY <1>1 DEF Calls
<1>3. SerialLocals(t) /\ owns[t] \subseteq 3 .. NumBits - 1
  BY Alone
<1>4. Taken' = Taken
  BY DEF Taken
<1>5. ASSUME NEW pc, Moved(c, d, pc, {})
      PROVE  WritesOf(c, Taken) => WritesOf(d, Taken)
  BY <1>5 DEF WritesOf, Moved
<1>6. CASE read_lseek(t)
  <2>1. Moved(c, d, "read", {}) /\ off' = c.lba /\ img' = img /\ c.pc = "rseek"
    BY <1>1, <1>6, Moves DEF read_lseek, At
  <2>2. SerialLocals(t)'
    BY <1>3, <2>1 DEF SerialLocals, Moved, Reading, ToWrite
  <2>. QED BY <2>1, <2>2, SerialLocal
<1>7. CASE read_read(t)
  <2>1. c.pc = "read" /\ img' = img /\ off = c.lba
    BY <1>3, <1>7 DEF read_read, At, SerialLocals, Reading
  <2>2. off \in DOMAIN img
    BY <1>1, <1>2, <2>1 DEF IsImage
  <2>3. /\ Moved(c, d, "read_done", {"buf", "err"})
        /\ d.buf = img[c.lba] /\ d.err = 0
    BY <1>1, <1>7, <2>1, <2>2 DEF read_read, Moved, Calls
  <2>4. SerialLocals(t)'
    BY <1>3, <2>1, <2>3 DEF SerialLocals, Moved, Reading, ToWrite
  <2>. QED BY <2>1, <2>4, SerialLocal
<1>8. CASE write_lseek_end(t)
  <2>1. Moved(c, d, "wseek", {}) /\ img' = img /\ c.pc = "wend"
    BY <1>1, <1>8, Moves DEF write_lseek_end, At
  <2>2. SerialLocals(t)'
    BY <1>3, <1>4, <1>5, <2>1 DEF SerialLocals, Moved, Reading, ToWrite
  <2>. QED BY <2>1, <2>2, SerialLocal
<1>9. CASE write_lseek(t)
  <2>1. Moved(c, d, "write", {}) /\ img' = img /\ off' = c.lba /\ c.pc = "wseek"
    BY <1>1, <1>9, Moves DEF write_lseek, At
  <2>2. SerialLocals(t)'
    BY <1>3, <1>4, <1>5, <2>1 DEF SerialLocals, Moved, Reading, ToWrite
  <2>. QED BY <2>1, <2>2, SerialLocal
<1>10. CASE write_write(t)
  <2>1. Moved(c, d, "write_done", {}) /\ c.pc = "write"
    BY <1>1, <1>10, Moves DEF write_write, At
  <2>2. /\ WritesOf(c, Taken) /\ off = c.lba /\ img[1] = Taken
        /\ c.h # "alloc_blk" => c.arg \in owns[t]
        /\ ~overlap /\ \A u \in Threads : u # t => call'[u] = Idle
    BY <1>3, <2>1, Alone DEF SerialLocals, ToWrite
  <2>3. /\ img'[c.lba] = c.buf
        /\ \A b \in Bits : b # c.lba => img'[b] = img[b]
    BY <1>1, <1>2, <1>10, <2>2 DEF write_write, IsImage
  <2>4. c.h \in MapCalls \cup {"put"} /\ d.h = c.h /\ d.lba = c.lba /\ d.buf = c.buf /\ d.arg = c.arg
    BY <1>1, <2>1 DEF LocalsOK, ToWrite, Moved
  <2>5. /\ c.h \in MapCalls => c.lba = 1
        /\ c.h = "put" => c.lba = c.arg /\ c.buf = {c.arg} /\ c.arg \in 3 .. NumBits - 1
    BY <1>3, <2>2 DEF WritesOf, MapCalls
  <2> HIDE DEF c, d
  <2>6. /\ img'[1] = IF c.h = "put" THEN Taken ELSE c.buf
        /\ img'[0] = img[0]
        /\ \A b \in Bits \ {0, 1} : img'[b] = img[b] \/ img'[b] = {b}
    BY <2>2, <2>3, <2>4, <2>5, BitsFacts DEF MapCalls
  <2>7. SerialLocals(t)'
    BY <1>4, <1>5, <2>1, <2>2, <2>4, <2>6 DEF SerialLocals, Moved, Reading, ToWrite, d
  <2>8. /\ \A u \in Threads : owns'[u] \subseteq 3 .. NumBits - 1
        /\ \A u, v \in Threads : u # v => owns'[u] \cap owns'[v] = {}
        /\ \A b \in Bits \ {0, 1} : img'[b] \in {{}, {b}}
        /\ img'[0] = SuperBits
    BY <2>2, <2>6 DEF Serial
  <2>9. call'[t].pc = "write_done"
    BY <2>1 DEF Moved, d
  <2>. QED BY <2>2, <2>7, <2>8, <2>9, SerialSuffices
<1>. QED BY <1>6, <1>7, <1>8, <1>9, <1>10 DEF IOStep

\* What a new owner, or one owner less, does to the set of blocks taken.
LEMMA TakenChange ==
  ASSUME ThreadsTypeOK, NEW t \in Threads, NEW S, owns' = [owns EXCEPT ![t] = S]
  PROVE  /\ owns'[t] = S
         /\ \A u \in Threads : u # t => owns'[u] = owns[u]
         /\ \A b : b \in Taken' <=> b \in {0, 1, 2} \/ b \in S
                                    \/ \E u \in Threads \ {t} : b \in owns[u]
<1>1. owns'[t] = S /\ \A u \in Threads : u # t => owns'[u] = owns[u]
  BY DEF ThreadsTypeOK
<1>. QED BY <1>1 DEF Taken

LEMMA SerialCall ==
  ASSUME ThreadsTypeOK, Serial, NEW t \in Threads, TStep(t), ~overlap',
         alloc_scan(t) \/ free_clear(t) \/ written(t) \/ statfs_next(t)
  PROVE  Serial'
<1> DEFINE c == call[t]
           d == call'[t]
<1>1. /\ c \in Calls /\ LocalsOK(c) /\ call \in [Threads -> Calls \cup {Idle}]
      /\ img' = img /\ owns \in [Threads -> SUBSET Bits]
  BY CallTypes DEF ThreadsTypeOK
<1>2. /\ ~overlap
      /\ \A u \in Threads : u # t => call'[u] = Idle
      /\ c.pc # "write_done" => img[1] = Taken
      /\ SerialLocals(t)
      /\ owns[t] \subseteq 3 .. NumBits - 1
  BY Alone
<1>3. Taken \in SUBSET Bits /\ Taken = Taken \cup {0, 1, 2}
  BY <1>1, BitsFacts DEF Taken
<1>4. ASSUME c.pc = "read_done", c.h \in MapCalls PROVE Seen(t) = {Taken} /\ c.lba = 1
  <2>1. c.buf = Taken /\ c.lba = 1
    BY <1>2, <1>4 DEF SerialLocals, Reading
  <2>2. c.buf # Uninit
    BY <1>3, <2>1, UninitAssumption
  <2>. QED BY <2>1, <2>2 DEF Seen
<1>5. CASE alloc_scan(t)
  <2>1. c.pc = "read_done" /\ c.h = "alloc_blk" /\ UNCHANGED owns
    BY <1>5 DEF alloc_scan, At
  <2>2. c.lba = 1 /\ Seen(t) = {Taken} /\ Taken' = Taken
    BY <1>4, <2>1 DEF MapCalls, Taken
  <2>3. CASE free_bits(Taken) = {}
    <3>1. Moved(c, d, "return", {"res"})
      BY <1>1, <1>5, <2>2, <2>3, Moves DEF alloc_scan
    <3>2. SerialLocals(t)'
      BY <3>1 DEF SerialLocals, Moved, Reading, ToWrite
    <3>. QED BY <1>1, <2>1, <3>2, SerialLocal
  <2>4. CASE free_bits(Taken) # {}
    <3> DEFINE i == Min(free_bits(Taken))
               m == Taken
    <3>1. i \in free_bits(m)
      BY <1>3, <2>4, FreeBits
    <3>2. call' = [call EXCEPT ![t].arg = i, ![t].buf = m \cup {i}, ![t].pc = "wend"]
      BY <1>5, <2>2, <2>4 DEF alloc_scan
    <3> HIDE DEF i, m
    <3>3. /\ Moved(c, d, "wend", {"arg", "buf"})
          /\ d.arg = i /\ d.buf = m \cup {i}
      BY <1>1, <3>2 DEF Moved, Calls
    <3>4. WritesOf(d, m)
      BY <2>1, <2>2, <3>1, <3>3 DEF WritesOf, Moved
    <3>5. SerialLocals(t)'
      BY <2>1, <2>2, <3>3, <3>4 DEF SerialLocals, Moved, Reading, ToWrite, m
    <3>. QED BY <1>1, <2>1, <3>5, SerialLocal
  <2>. QED BY <2>3, <2>4
<1>6. CASE free_clear(t)
  <2>1. c.pc = "read_done" /\ c.h = "free_blk" /\ UNCHANGED owns
    BY <1>6 DEF free_clear, At
  <2>2. c.arg \in owns[t] /\ Seen(t) = {Taken} /\ Taken' = Taken
    BY <1>2, <1>4, <2>1 DEF MapCalls, Taken, SerialLocals, Reading
  <2>3. WriteNext(t, 1, Taken \ {c.arg})
    BY <1>6, <2>2 DEF free_clear
  <2>4. /\ Moved(c, d, "wend", {"lba", "buf"})
        /\ d.lba = 1 /\ d.buf = Taken \ {c.arg}
    BY <1>1, <2>3, Moves
  <2>5. WritesOf(d, Taken)
    BY <2>1, <2>4 DEF WritesOf, Moved
  <2>6. SerialLocals(t)'
    BY <2>1, <2>2, <2>4, <2>5 DEF SerialLocals, Moved, Reading, ToWrite
  <2>. QED BY <1>1, <2>1, <2>6, SerialLocal
<1>7. CASE statfs_next(t)
  <2>1. c.pc = "read_done" /\ c.h = "statfs" /\ UNCHANGED owns
    BY <1>7 DEF statfs_next, At
  <2>2. CASE call' = [call EXCEPT ![t].lba = 1, ![t].pc = "rseek"]
    <3>1. Moved(c, d, "rseek", {"lba"}) /\ d.lba = 1
      BY <1>1, <2>2 DEF Moved, Calls
    <3>2. SerialLocals(t)'
      BY <2>1, <3>1 DEF SerialLocals, Moved, Reading, ToWrite, MapCalls
    <3>. QED BY <1>1, <2>1, <3>2, SerialLocal
  <2>3. CASE \E r : Return(t, r)
    <3>1. Moved(c, d, "return", {"res"})
      BY <1>1, <2>3, Moves
    <3>2. SerialLocals(t)'
      BY <3>1 DEF SerialLocals, Moved, Reading, ToWrite
    <3>. QED BY <1>1, <2>1, <3>2, SerialLocal
  <2>. QED BY <1>7, <2>2, <2>3 DEF statfs_next
<1>8. CASE written(t)
  <2>1. c.pc = "write_done" /\ Moved(c, d, "return", {"res"})
    BY <1>1, <1>8, Moves DEF written, At
  <2>2. c.h \in MapCalls \cup {"put"}
    BY <1>1, <2>1 DEF LocalsOK
  <2>3. /\ WritesOf(c, Taken)
        /\ c.h # "alloc_blk" => c.arg \in owns[t]
        /\ img[1] = IF c.h = "put" THEN Taken ELSE c.buf
    BY <1>2, <2>1 DEF SerialLocals
  <2>4. SerialLocals(t)'
    BY <2>1 DEF SerialLocals, Moved, Reading, ToWrite
  <2>5. /\ \A u \in Threads : owns[u] \subseteq 3 .. NumBits - 1
        /\ \A u, v \in Threads : u # v => owns[u] \cap owns[v] = {}
        /\ \A b \in Bits \ {0, 1} : img'[b] \in {{}, {b}}
        /\ img'[0] = SuperBits
    BY <1>1, <1>2 DEF Serial
  <2>6. /\ \A u \in Threads : owns'[u] \subseteq 3 .. NumBits - 1
        /\ \A u, v \in Threads : u # v => owns'[u] \cap owns'[v] = {}
        /\ img'[1] = Taken'
    <3> HIDE DEF c, d
    <3>1. CASE c.h = "alloc_blk"
      <4>1. owns' = [owns EXCEPT ![t] = owns[t] \cup {c.arg}]
        BY <1>1, <1>8, <3>1 DEF written, c
      <4>2. c.arg \in free_bits(Taken) /\ img[1] = Taken \cup {c.arg}
        BY <2>3, <3>1 DEF WritesOf
      <4>3. c.arg \in 3 .. NumBits - 1 /\ \A u \in Threads : c.arg \notin owns[u]
        BY <4>2 DEF free_bits, Taken
      <4> DEFINE S == owns[t] \cup {c.arg}
      <4>4. /\ owns'[t] = S
            /\ \A u \in Threads : u # t => owns'[u] = owns[u]
            /\ \A b : b \in Taken' <=> b \in {0, 1, 2} \/ b \in S
                                       \/ \E u \in Threads \ {t} : b \in owns[u]
        <5>1. owns' = [owns EXCEPT ![t] = S]
          BY <4>1
        <5> HIDE DEF S
        <5>. QED BY <5>1, TakenChange
      <4>5. Taken' = Taken \cup {c.arg}
        BY <4>4 DEF Taken
      <4>. QED BY <1>1, <2>5, <4>2, <4>3, <4>4, <4>5
    <3>2. CASE c.h = "free_blk"
      <4>1. owns' = [owns EXCEPT ![t] = owns[t] \ {c.arg}]
        BY <1>1, <1>8, <3>2 DEF written, c
      <4>2. c.arg \in owns[t] /\ img[1] = Taken \ {c.arg}
        BY <2>3, <3>2 DEF WritesOf
      <4>3. c.arg \notin {0, 1, 2} /\ \A u \in Threads : u # t => c.arg \notin owns[u]
        BY <2>5, <4>2
      <4> DEFINE S == owns[t] \ {c.arg}
      <4>4. /\ owns'[t] = S
            /\ \A u \in Threads : u # t => owns'[u] = owns[u]
            /\ \A b : b \in Taken' <=> b \in {0, 1, 2} \/ b \in S
                                       \/ \E u \in Threads \ {t} : b \in owns[u]
        <5>1. owns' = [owns EXCEPT ![t] = S]
          BY <4>1
        <5> HIDE DEF S
        <5>. QED BY <5>1, TakenChange
      <4>5. Taken' = Taken \ {c.arg}
        BY <4>3, <4>4 DEF Taken
      <4>. QED BY <1>1, <2>5, <4>2, <4>4, <4>5
    <3>3. CASE c.h = "put"
      <4>1. owns' = owns
        BY <1>1, <1>8, <3>3 DEF written, c
      <4>2. Taken' = Taken
        BY <4>1 DEF Taken
      <4>. QED BY <1>1, <2>3, <2>5, <3>3, <4>1, <4>2
    <3>. QED BY <2>2, <3>1, <3>2, <3>3 DEF MapCalls
  <2>. QED BY <1>2, <2>4, <2>5, <2>6, SerialSuffices
<1>. QED BY <1>5, <1>6, <1>7, <1>8

LEMMA SerialBegin ==
  ASSUME ThreadsTypeOK, Serial, NEW t \in Threads, Enter(t)
  PROVE  Serial'
<1>1. PICK c \in Calls :
        /\ Becomes(t, c)
        /\ MayBegin(t)
        /\ UNCHANGED <<img, off, saved, owns, overlap>>
        /\ \/ /\ c.pc = "rseek" /\ c.h \in MapCalls /\ c.lba = 1
              /\ c.h = "free_blk" => c.arg \in owns[t]
           \/ c.pc = "rseek" /\ c.h = "statfs" /\ c.lba = 0
           \/ /\ c.pc = "wend" /\ c.h = "put" /\ c.arg \in owns[t]
              /\ c.lba = c.arg /\ c.buf = {c.arg}
           \/ c.pc = "strtok" /\ c.h = "split"
  BY EnterCases
<1>2. SUFFICES ASSUME ~overlap PROVE Serial'
  BY <1>1 DEF Serial
<1>3. Taken' = Taken /\ call'[t] = c
  BY <1>1 DEF Taken, Becomes
<1>4. ASSUME NEW u \in Threads, u # t PROVE SerialLocals(u)'
  <2>1. call'[u] = call[u] /\ SerialLocals(u)
    BY <1>1, <1>2, <1>4 DEF Serial, Becomes
  <2>. QED BY <1>1, <1>3, <2>1 DEF SerialLocals
<1>5. SerialLocals(t)'
  <2>1. CASE c.pc = "rseek"
    BY <1>1, <1>3, <2>1 DEF SerialLocals, Reading, ToWrite, MapCalls
  <2>2. CASE c.pc = "wend"
    <3>1. WritesOf(c, Taken)
      BY <1>1, <2>2 DEF WritesOf
    <3>. QED BY <1>1, <1>3, <2>2, <3>1 DEF SerialLocals, Reading, ToWrite
  <2>3. CASE c.pc = "strtok"
    BY <1>3, <2>3 DEF SerialLocals, Reading, ToWrite
  <2>. QED BY <1>1, <2>1, <2>2, <2>3
<1>6. (\A u \in Threads : ~At(u, "write_done"))' => img'[1] = Taken'
  <2>1. call[t].pc # "write_done"
    BY <1>1 DEF MayBegin, InCall, Idle
  <2>2. \A u \in Threads : u # t => call'[u] = call[u]
    BY <1>1 DEF Becomes
  <2>. QED BY <1>1, <1>2, <1>3, <2>1, <2>2 DEF Serial, At
<1>. QED BY <1>1, <1>2, <1>4, <1>5, <1>6 DEF Serial

LEMMA SerialStep ==
  ASSUME ThreadsTypeOK, Serial, [TNext]_tvars
  PROVE  Serial'
<1>1. CASE UNCHANGED tvars
  <2>1. /\ img' = img /\ off' = off /\ call' = call /\ owns' = owns
        /\ overlap' = overlap /\ Taken' = Taken
    BY <1>1 DEF tvars, Taken
  <2>2. \A t \in Threads : SerialLocals(t)' <=> SerialLocals(t)
    BY <2>1 DEF SerialLocals
  <2>. QED BY <2>1, <2>2 DEF Serial, At
<1>2. ASSUME NEW t \in Threads, TStep(t) PROVE Serial'
  <2> SUFFICES ASSUME ~overlap' PROVE Serial'
    BY DEF Serial
  <2> DEFINE c == call[t]
             d == call'[t]
  <2>1. CASE IOStep(t) /\ UNCHANGED <<saved, owns>>
    BY <1>2, <2>1, SerialIO
  <2>2. CASE alloc_scan(t) \/ free_clear(t) \/ written(t) \/ statfs_next(t)
    BY <1>2, <2>2, SerialCall
  <2>3. CASE (strtok_first(t) \/ strtok_null(t)) /\ UNCHANGED <<img, off, owns>>
    <3>1. c \in Calls /\ call \in [Threads -> Calls \cup {Idle}]
      BY <2>3, SplitTypes DEF ThreadsTypeOK
    <3>2. c.pc \in {"strtok", "strtok_null"} /\ d.pc \in {"strtok_null", "return"}
      BY <2>3, <3>1 DEF strtok_first, strtok_null, strtok, Return, At, Calls
    <3>3. SerialLocals(t)'
      BY <3>2 DEF SerialLocals, Reading, ToWrite
    <3>. QED BY <1>2, <2>3, <3>2, <3>3, SerialLocal
  <2>4. CASE leave(t) /\ UNCHANGED <<img, off, saved, owns>>
    <3>1. d = Idle /\ c.pc = "return"
      BY <2>4 DEF leave, ThreadsTypeOK, At
    <3>2. SerialLocals(t)'
      BY <3>1 DEF SerialLocals, Reading, ToWrite, Idle
    <3>. QED BY <1>2, <2>4, <3>1, <3>2, SerialLocal
  <2>. QED BY <1>2, <2>1, <2>2, <2>3, <2>4 DEF TStep
<1>. QED BY <1>1, <1>2, SerialBegin DEF TNext

\* As long as calls do not overlap, alloc_blk never gives a block away twice,
\* the map marks exactly what is owned whenever no call runs, and no block
\* loses what its owner wrote: for any number of threads and calls.
THEOREM SerialSafety == TSpec => []SerialIsSound
<1>1. TInit => Serial
  <2> SUFFICES ASSUME TInit PROVE Serial
    OBVIOUS
  <2>1. Taken = {0, 1, 2}
    BY DEF TInit, Taken
  <2>2. /\ img[0] = SuperBits /\ img[1] = {0, 1, 2}
        /\ \A b \in Bits \ {0, 1} : img[b] = {}
    BY BitsFacts DEF TInit, IOInit
  <2>3. \A t \in Threads : SerialLocals(t)
    BY DEF TInit, SerialLocals, Idle, Reading, ToWrite
  <2>. QED BY <2>1, <2>2, <2>3 DEF TInit, Serial
<1>2. Serial => SerialIsSound
  <2>1. (\A t \in Threads : ~InCall(t)) => \A t \in Threads : ~At(t, "write_done")
    BY DEF InCall, At, Idle
  <2>. QED BY <2>1 DEF Serial, SerialIsSound, Taken
<1>3. TSpec => []ThreadsTypeOK
  BY ThreadsTypes
<1>. QED BY <1>1, <1>2, <1>3, SerialStep, PTL DEF TSpec
=============================================================================
