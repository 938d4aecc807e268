CONSTANTS
  NBUF = 2
  Block = {1, 2, 3}
  Content <- MCContent
  Zero <- MCZero
  MaxRef = 2
  NPACKET = 2
  Value = {0, 1}
  Junk = 2
SPECIFICATION DriverSpec
INVARIANTS
  OneBufferPerBlock
  ReadsSeeLastWrite
  NoWriteLost
PROPERTIES
  HeldBufferKept
  ImplementsBufCache
  TransfersEnd
CHECK_DEADLOCK FALSE
