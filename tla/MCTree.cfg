SPECIFICATION Spec
CONSTANTS
  p1 = p1
  n1 = n1
  n2 = n2
  Procs <- MCProcs
  Names <- MCNames
  NInum = 4
  MaxPath = 2
  MaxLink = 3
SYMMETRY Sym
CHECK_DEADLOCK FALSE
INVARIANTS TreeShape
PROPERTY OneEntry
