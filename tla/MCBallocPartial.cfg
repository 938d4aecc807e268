CONSTANTS
  BPB = 4
  SIZE = 9
  NMETA = 2
SPECIFICATION Spec
INVARIANT
  BlockOnDisk
CHECK_DEADLOCK FALSE
