SPECIFICATION FairSpec
CONSTANTS
  AdviceLines <- MCAdviceLines
  KeyLines <- MCKeyLines
  INPUT_BUF_SIZE = 3
  LINE_BUF = 5
  BUF_SZ = 5
  PIPESIZE = 2
  MaxLines = 3
INVARIANTS
  
  NeverStuckAsleep

  
CHECK_DEADLOCK FALSE
