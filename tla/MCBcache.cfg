SPECIFICATION Spec
CONSTANTS
  p1 = p1
  p2 = p2
  b1 = b1
  b2 = b2
  b3 = b3
  b4 = b4
  v1 = v1
  v2 = v2
  Procs <- MCProcs2
  Blocks <- MCBlocks4
  Vals <- MCVals
  Level <- MCLevel
  NBUF = 2
  MaxPins = 1
SYMMETRY Sym
INVARIANTS RefCounts Coherent NoLostWakeup
