CONSTANTS
  BPB = 4
  SIZE = 12
  NMETA = 2
  BSIZE = 2
  NDIRECT = 1
  NINDIRECT = 2
  MAXOPBLOCKS = 6
  SBUFSIZE = 10
  Inode <- MCInode
  File <- MCFile
  Counts = {1, 5}
  AnySeek = TRUE
  MaxCalls = 4
SPECIFICATION BmapSpec
INVARIANT
  LseekKeepsData
CHECK_DEADLOCK FALSE
