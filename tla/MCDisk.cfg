SPECIFICATION Spec
CONSTANTS
  p1 = p1
  p2 = p2
  p3 = p3
  v0 = v0
  v1 = v1
  Procs <- MCProcs3
  Vals <- MCVals
  NUM = 8
  IdxMod = 8
SYMMETRY Sym
CHECK_DEADLOCK FALSE
INVARIANTS DescOwned Transferred OnItsWay
PROPERTY DmaInWindow
