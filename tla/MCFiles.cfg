CONSTANTS
  NINODE = 2
  NINODES = 4
  a = a
  b = b
  Name = {a, b}
  NPROC = 2
  NOFILE = 2
  NFILE = 3
  Path <- FlatPaths
  MaxLeaks = 1
  MaxLinks = 2
SPECIFICATION Spec
SYMMETRY FlatSymmetry
INVARIANTS
  FileRefsMatch
  RefsAccountedFor
CHECK_DEADLOCK FALSE
