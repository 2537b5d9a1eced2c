SPECIFICATION Spec
CONSTANTS
  p1 = p1
  p2 = p2
  p3 = p3
  Procs <- MCProcs3
  Init0 = p1
  NPages = 16
  PGSIZE = 2
  PerTable = 2
  MaxVpn = 4
  UintMod = 18
  Word = 2
  MaxLen = 5
  Sizes <- MCSizes
SYMMETRY Sym
INVARIANTS PagesExact MapExact CopyRight
