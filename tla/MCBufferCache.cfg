SPECIFICATION Spec
CONSTANTS
  p1 = p1
  p2 = p2
  p3 = p3
  none = none
  b1 = b1
  b2 = b2
  b3 = b3
  null = null
  n1 = n1
  n2 = n2
  n3 = n3
  n4 = n4
  noblock = noblock
  Procs = {p1, p2, p3}
  NoProc = none
  Bufs = {b1, b2, b3}
  NoBuf = null
  Blocks = {n1, n2, n3, n4}
  NoBlock = noblock
  NUM = 7
  MaxPins = 1
SYMMETRY Symmetry
VIEW BlockView
INVARIANTS
  TypeOK
  NoLostWakeup
  RefcntExact
  BlockCurrent
  ChainsOwned
CHECK_DEADLOCK FALSE
