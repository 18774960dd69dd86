SPECIFICATION Spec
CONSTANTS
  Names = {a, b}
  LongNames = {long}
  MaxDepth = 2
  NumBits = 8
  DiskSize = 8
  RootDirBlk = 7
  NumDirent = 2
  BlockSize = 1
  NumPtrs = 2
  Word = 64
  Perms = {rw}
  Times = {1}
  Offsets = {0, 1, 3}
  Lengths = {1, 2}
  NoPtr = NoPtr
SYMMETRY Symmetry
VIEW View
PROPERTY LeaksOnlyAtLimits
INVARIANTS
  TypeOK
  ReservedSafe
  LinkedSound
  Exclusive
  SingleEntry
  FreedDirsEmpty
  UniqueNames
  OnePath
  ReaddirAgrees
