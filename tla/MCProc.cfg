CONSTANTS
  NFRAME = 4
  NPROC = 4
  Chan = {c1}
  FrameCounts = {1, 2}
  MaxPid = 4
SPECIFICATION FairSpec
INVARIANTS
  ScanIsAllocframes
  BaseRegisterMapsOwnFrames
  MemoryIsolation
  NoFrameLeak
  ParentCanWait
  NoLostWakeup
PROPERTIES
  ImplementsProcTree
  OrphansReaped
  OnlyExecMovesAProcess
CHECK_DEADLOCK FALSE
