SPECIFICATION Spec
CONSTANTS
  Tables <- MCTables
  Answers <- MCAnswers
  RETRIES = 1
  FifoSize = 1
  MaxTs = 3
  MaxUpsets = 2
PROPERTIES
  CompleteBlockReturned
