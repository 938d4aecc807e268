CONSTANTS
  BPB = 4
  SIZE = 12
  NMETA = 2
  BSIZE = 2
  NDIRECT = 1
  NINDIRECT = 2
  MAXOPBLOCKS = 6
  SBUFSIZE = 2
  Inode <- MCInode
  File <- MCFile
  Counts = {1, 5}
  AnySeek = FALSE
  MaxCalls = 4
SPECIFICATION BmapFairSpec
INVARIANTS
  PanicsOnlyWhenFull
  FileHoldsData
  BlocksAccountedFor
  NoOtherPanic
  InodeWritten
  
PROPERTIES
  
  
  ReadReturnsData
CHECK_DEADLOCK FALSE
