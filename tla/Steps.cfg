SPECIFICATION SSpec
CONSTANTS
  Names = {a, b}
  LongNames = {long}
  MaxDepth = 2
  NumBits = 7
  DiskSize = 7
  RootDirBlk = 6
  NumDirent = 2
  BlockSize = 2
  NumPtrs = 2
  Word = 64
  Perms = {rw}
  Times = {1}
  Offsets = {0, 1, 2}
  Lengths = {0, 1, 3}
  NoPtr = NoPtr
VIEW View
CONSTRAINT Repeated
INVARIANTS
  CrashContained
  LeakBounded
PROPERTIES
  ImplementsFs5600
  ChangesAtOnce
  RequestsEnd
