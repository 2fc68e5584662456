SPECIFICATION FairSpec
CONSTANTS
  p1 = p1
  p2 = p2
  b1 = b1
  b2 = b2
  none = none
  Procs = {p1, p2}
  Blocks = {b1, b2}
  NoBlock = none
  Val = {0, 1}
  NoBuf = none
  MAXOPBLOCKS = 3
  LOGBLOCKS = 6
  OpBlocks = 2
INVARIANTS
  TypeOK
  LogSpace
  
PROPERTIES
  ImplementsStore
  SleepersWoken
