SPECIFICATION Spec
CONSTANTS
  LBAStart = 1
  RsvdSecCnt = 3
  NumFATs = 1
  FATSz32 = 5
  RootEntCnt = 0
  SecPerClus = 1
  BytsPerSec = 4
  Word = 65536
  Mask = 268435456
  ChainTables <- MCTables
  Garbage = {0, 2, 65535}
  Offsets = {0}
  MaxSize = 12
  MaxNodes = 6
CHECK_DEADLOCK FALSE
INVARIANT
  EachItsPart
