CONSTANTS
  NPROC = 3
  PIPESIZE = 2
  UMAX = 4
  InitEnds <- AnyEnds
  Counts = {1, 3}
  MaxBytes = 6
SPECIFICATION FairSpec
INVARIANTS
  NoLostWakeup
  FreedPipeUnused
PROPERTIES
  EofOnlyAtEnd
  ImplementsFifo
  BlockedIsWoken
CHECK_DEADLOCK FALSE
