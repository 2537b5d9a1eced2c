SPECIFICATION MkfsSpec
CONSTANTS
  root = root
  f1 = f1
  v1 = v1
  v2 = v2
  Files <- MCFiles
  Root = root
  NBlocks = 4
  BSIZE = 2
  NDIRECT = 1
  NINDIRECT = 1
  MAXOPBLOCKS = 6
  Vals <- MCVals
  RootBytes = 1
  MaxContents = 4
SYMMETRY Sym
INVARIANTS ReadsBack BlocksExact CacheClean
