CONSTANTS
  NFRAME = 4
  NPROC = 4
  Chan = {c1}
  FrameCounts = {1, 2}
  MaxPid = 6
  CELLS = 2
  START = 2
  WORD = 32
SPECIFICATION SpaceSpec
INVARIANT MemoryKept
CHECK_DEADLOCK FALSE
