SPECIFICATION LiveSpec
CONSTANTS
  MaxSeq = 3
  Content <- Different
  Bridges <- Either
  CleanEvery = 2
  Keep = 4
  Modulus = 16
  MaxOut = 3
  CloseTunnel = CloseTunnel
  Nil = Nil
CHECK_DEADLOCK FALSE
INVARIANTS TypeOK KeptWhileOpen
PROPERTY ImplementsPipe
