SPECIFICATION Spec
CONSTANTS
  PoolWords = 3
  WordBytes = 2
  MaxFills = 4
  MaxSignals = 2
INVARIANTS
  TypeOK
PROPERTIES
  OneStep
  CallReturns
CHECK_DEADLOCK FALSE
