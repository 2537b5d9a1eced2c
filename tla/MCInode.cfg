SPECIFICATION Spec
CONSTANTS
  p1 = p1
  p2 = p2
  a = a
  b = b
  Procs = {p1, p2}
  Names = {a, b}
  NInum = 3
  NINODE = 2
  MaxOps = 2
SYMMETRY Symmetry
INVARIANT RefExact
INVARIANT LinksExact
INVARIANT CacheCurrent
