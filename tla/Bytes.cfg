SPECIFICATION BSpec
CONSTANTS
  Names = {a, b}
  LongNames = {long}
  MaxDepth = 1
  NumBits = 7
  DiskSize = 6
  RootDirBlk = 5
  NumDirent = 2
  BlockSize = 2
  NumPtrs = 2
  Word = 64
  Perms = {rw}
  Times = {1}
  Offsets = {0, 1, 2, 3}
  Lengths = {1, 2, 3}
  Bytes = {x, y}
  Junk = Junk
  NoPtr = NoPtr
SYMMETRY Symmetry
VIEW View
INVARIANT ReadExact
PROPERTY ImplementsFlatFiles
