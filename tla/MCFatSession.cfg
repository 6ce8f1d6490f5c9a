SPECIFICATION SessionSpec
CONSTANTS
  LBAStart = 1
  RsvdSecCnt = 3
  NumFATs = 1
  FATSz32 = 5
  RootEntCnt = 0
  SecPerClus = 1
  BytsPerSec = 4
  Word = 65536
  Mask = 268435456
  ChainTables <- MCTables
  Garbage = {0, 1, 2, 65535}
  Offsets = {0}
  MaxSize = 10
  MaxNodes = 6
  FSInfo = 1
  EntrySize = 2
  MaxOrder = 7
CHECK_DEADLOCK FALSE
INVARIANTS
  TypeOK
  EachFromItsPlace
  ListIsChain
  ContentIsFile
  CutIntoClusters
  LongInPlace
PROPERTIES
  ReadReturns
