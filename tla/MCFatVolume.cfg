SPECIFICATION FairSpec
CONSTANTS
  LBAStart = 1
  RsvdSecCnt = 1
  NumFATs = 1
  FATSz32 = 6
  RootEntCnt = 0
  SecPerClus = 1
  BytsPerSec = 4
  Word = 65536
  Mask = 268435456
  Byte = 2
  HalfWord = 4
  Handles = {h1}
  InitialTables <- MCTables
  MaxChunks = 3
  Junk = {0}
CONSTRAINT Bound
INVARIANTS
  TypeOK
  ChainsTerminate
  NoLinkToFree
  FilesDisjoint
  LoopNeverStarves
  ChainLength
PROPERTY
  InsertReturns
