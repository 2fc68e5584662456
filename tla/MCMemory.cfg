SPECIFICATION Spec
VIEW PageView
CONSTANTS
  p1 = p1
  p2 = p2
  Procs = {p1, p2}
  First = p1
  NPAGES = 20
  NVPAGES = 4
  EPT = 2
  PG = 5
  TEXT = 1
  Deltas <- MCDeltas
INVARIANTS
  PagesOwned
  LeavesInside
PROPERTY
  ImplementsSpaces
