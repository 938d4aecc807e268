CONSTANTS
  NINODE = 3
  NINODES = 4
  a = a
  b = b
  Name = {a, b}
  NPROC = 2
  NOFILE = 1
  NFILE = 1
  Path <- TreePaths
  MaxLeaks = 1
  MaxLinks = 2
SPECIFICATION FchdirSpec
INVARIANT
  PointersHaveRefs
CHECK_DEADLOCK FALSE
