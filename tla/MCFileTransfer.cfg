SPECIFICATION LiveSpec
CONSTANTS
  N = 2
  Cases <- Mixed
  MaxSenders = 2
  NackCap = 1
  MaxRounds = 2
  MaxBytes = 3
CHECK_DEADLOCK FALSE
INVARIANTS TypeOK 
  
