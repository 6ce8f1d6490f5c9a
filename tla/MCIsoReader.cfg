SPECIFICATION Spec
CONSTANTS
  Images <- MCImages
  Paths <- MCPaths
  PathMax = 4
  Slash = 47
  DirHeader = 3
  TableHeader = 2
  CharMax = 8
  UseRR = TRUE
CHECK_DEADLOCK FALSE
INVARIANTS
  TypeOK
  RecordsApart
  EveryRecordListed
  FirstMatchWins
  OwnedOnce
  MemorySafe
PROPERTY
  CallReturns
