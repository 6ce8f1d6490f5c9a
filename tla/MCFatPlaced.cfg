SPECIFICATION Spec
CONSTANTS
  LBAStart = 0
  RsvdSecCnt = 1
  NumFATs = 1
  FATSz32 = 6
  RootEntCnt = 0
  SecPerClus = 1
  BytsPerSec = 4
  Word = 65536
  Mask = 268435456
  Byte = 256
  HalfWord = 65536
  Slots = 3
  Handles = {h1, h2}
  InitialTables <- MCTables
  Leftovers <- MCLeftovers
SYMMETRY MCSymmetry
CONSTRAINT MCBound
CHECK_DEADLOCK FALSE
PROPERTY
  EntryPlaced
