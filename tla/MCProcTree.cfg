SPECIFICATION FairSpec
CONSTANTS
  NPROC = 4
  MaxPid = 5
INVARIANTS
  ParentLives
  NoLostExit
PROPERTIES
  OrphansReaped
