SPECIFICATION Spec
CONSTANTS
  Names = {a, b}
  LongNames = {}
  MaxDepth = 1
  NumBits = 6
  DiskSize = 6
  RootDirBlk = 5
  NumDirent = 2
  BlockSize = 1
  NumPtrs = 1
  Word = 64
  Perms = {rw}
  Times = {1}
  Offsets = {0, 1}
  Lengths = {1}
  NoPtr = NoPtr
PROPERTY FullDiskIsReported
