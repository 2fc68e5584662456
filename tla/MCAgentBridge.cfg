SPECIFICATION FairSpec
CONSTANTS
  Tables <- MCTables
  Answers <- MCAnswers
  RETRIES = 1
  FifoSize = 1
  MaxTs = 3
  MaxUpsets = 2
INVARIANTS
  AdviceGrounded
PROPERTIES
  AdviceNeverOlder
  
