CONSTANTS
  p1 = p1  p2 = p2  b1 = b1  b2 = b2  v0 = v0  v1 = v1
  Procs <- MCProcs2
  Blocks <- MCBlocks2
  Vals <- MCVals
  Zero = v0
  NoBuf = NoBuf
  MAXOPBLOCKS = 2
  LOGSIZE = 4
  NLog = 4
  OpBlocks = 2
SPECIFICATION FairSpec
INVARIANTS LogInv CommitAlone
PROPERTIES CrashAtomic SleeperWoken
