SPECIFICATION Spec
CONSTANTS
  LBAStart = 1
  RsvdSecCnt = 1
  NumFATs = 1
  FATSz32 = 5
  RootEntCnt = 0
  SecPerClus = 1
  BytsPerSec = 4
  Word = 65536
  Mask = 268435456
  Byte = 256
  HalfWord = 65536
  Handles = {h1}
  InitialTables <- MCTables
  MaxChunks = 1
  Junk = {0}
PROPERTY
  NewDirectoryOwnCluster
