SPECIFICATION Spec
CONSTANTS
  LBAStart = 1
  RsvdSecCnt = 1
  NumFATs = 2
  FATSz32 = 5
  RootEntCnt = 0
  SecPerClus = 1
  BytsPerSec = 4
  Word = 65536
  Mask = 268435456
  Byte = 2
  HalfWord = 4
  Handles = {h1, h2}
  InitialTables <- MCTables
  MaxChunks = 3
  Junk = {0}
CONSTRAINT Bound
SYMMETRY Interchangeable
INVARIANTS
  ListsInUse
  RestartSafe
PROPERTIES
  UpdateWrites
  ImplementsPool
