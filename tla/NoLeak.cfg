SPECIFICATION Spec
CONSTANTS
  Names = {a, b}
  LongNames = {}
  MaxDepth = 2
  NumBits = 11
  DiskSize = 11
  RootDirBlk = 10
  NumDirent = 2
  BlockSize = 2
  NumPtrs = 2
  Word = 64
  Perms = {rw}
  Times = {1}
  Offsets = {0, 1, 3, 4}
  Lengths = {0, 1, 2, 3}
  NoPtr = NoPtr
SYMMETRY Symmetry
VIEW View
CONSTRAINT RoomLeft
INVARIANTS
  Exclusive
  NoLeak
  Accounting
