SPECIFICATION Spec
CONSTANTS
  Procs = {1, 2}
  Init0 = 1
  NFILE = 3
  NOFILE = 2
  NPIPE = 1
  Inodes = {1}
  Root = 1
INVARIANTS RefExact BackingExact
