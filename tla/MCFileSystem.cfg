SPECIFICATION Spec
CONSTANTS
  p1 = p1
  p2 = p2
  none = none
  Procs = {p1, p2}
  InitProc = p1
  None = none
  Names = {"a", "b"}
  Calls <- MCCalls
  Image <- MCImage
  NINODES = 4
  NBLOCKS = 6
  NDIRECT = 1
  NINDIRECT = 1
  DPB = 3
  NFILE = 1
  NOFILE = 2
VIEW BlockView
INVARIANTS
  BlocksOwned
  
  RefsCounted
  
PROPERTIES
  BootReclaims
