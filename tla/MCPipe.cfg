SPECIFICATION Spec
CONSTANTS
  p1 = p1
  p2 = p2
  p3 = p3
  none = none
  Procs = {p1, p2, p3}
  NoProc = none
  Byte = {0, 1}
  Junk = 0
  PIPESIZE = 2
  UIntMod = 4
  Counts = {2}
SYMMETRY Symmetry
INVARIANTS
  NoUseAfterFree
  NoLostWakeup
PROPERTIES
  EofOnlyAtEnd
  ImplementsQueue
