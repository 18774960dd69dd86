SPECIFICATION HSpec
CONSTANTS
  Names = {a, b}
  LongNames = {long}
  MaxDepth = 2
  NumBits = 8
  DiskSize = 8
  RootDirBlk = 7
  NumDirent = 2
  BlockSize = 1
  NumPtrs = 1
  Word = 64
  Perms = {rw}
  Times = {1}
  Offsets = {0, 2}
  Lengths = {1}
  NoPtr = NoPtr
SYMMETRY Symmetry
VIEW View
PROPERTY ImplementsNamespace
