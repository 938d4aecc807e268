CONSTANTS
  NBUF = 5
  Home <- MCHome
  Block <- MCBlock
  Content <- MCContent
  Zero <- MCZero
  MaxRef = 2
  LogStart = 2
  LOGSIZE = 4
  MAXOPBLOCKS = 2
  MaxTx = 2
  MaxCrash = 2
SPECIFICATION LogSpec
INVARIANT RecoversToCommittedState
CHECK_DEADLOCK FALSE
