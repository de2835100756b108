SPECIFICATION LiveSpec
CONSTANTS
  Transports <- Any
  Chunks = 1
  MaxObjs = 3
  MaxSenders = 2
  MaxRecv = 1
  Cancels <- Both
  Nil = Nil
CHECK_DEADLOCK FALSE
INVARIANT TypeOK
INVARIANT ResultIsCausal
PROPERTY PhaseForward
PROPERTY TestEnds
