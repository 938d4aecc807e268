CONSTANTS
  NINODE = 3
  NINODES = 4
  a = a
  b = b
  Name = {a, b}
  NPROC = 2
  NOFILE = 1
  NFILE = 1
  Path <- TreePaths
  MaxLeaks = 1
  MaxLinks = 2
SPECIFICATION Spec
INVARIANTS
  CacheCoherent
  
  DirectoriesFormATree
  PanicsExplained
CHECK_DEADLOCK FALSE
