CONSTANTS
  NBUF = 3
  Home <- MCHome3
  Block <- MCBlock
  Content <- MCContent
  Zero <- MCZero
  MaxRef = 2
  LogStart = 2
  LOGSIZE = 4
  MAXOPBLOCKS = 2
  MaxTx = 2
  MaxCrash = 2
SPECIFICATION LogSpec
INVARIANTS
  LogErasedWhenIdle
  BeginOpNeverSpins
  SyncedStateRecovered
  
PROPERTIES
  CommitKeepsContents
CHECK_DEADLOCK FALSE
