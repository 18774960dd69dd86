SPECIFICATION HSpec
CONSTANTS
  Names = {a, b}
  LongNames = {long}
  MaxDepth = 1
  NumBits = 7
  DiskSize = 7
  RootDirBlk = 6
  NumDirent = 1
  BlockSize = 1
  NumPtrs = 2
  Word = 64
  Perms = {ro, rw}
  Times = {1, 2}
  Offsets = {0, 1, 3}
  Lengths = {0, 1, 2}
  NoPtr = NoPtr
SYMMETRY Symmetry
VIEW View
PROPERTY ImplementsNamespace
