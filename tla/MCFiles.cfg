INIT Init
NEXT Next
CONSTANTS
  t1 = t1
  t2 = t2
  f1 = f1
  f2 = f2
  p1 = p1
  p2 = p2
  n1 = n1
  n2 = n2
  Tasks = {t1, t2}
  NR_INODE = 3
  s_ninodes = 2
SYMMETRY Symmetry
INVARIANTS
  OneCopy
  InodeCountExact
  InodesKept
  BlocksExact
  LinksExact
  BytesExact
CHECK_DEADLOCK FALSE
