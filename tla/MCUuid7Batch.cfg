SPECIFICATION Spec
CONSTANTS
  MaxTimestamp = 1
  MaxCounter = 1
  PoolWords = 2
  WordSpan = 8
  t1 = t1
  t2 = t2
  Threads <- MCThreads
  Sizes <- MCSizes
  Sources <- MCSources
  Readings <- MCReadings
  MaxDepth = 2
  MaxCalls = 3
SYMMETRY MCSymmetry
INVARIANTS
  TypeOK
  CallsIncrease
  GivenOnce
  RawBatchesAreContiguous
  ValidatedBeforeEntropy
  AnswersTheSnapshot
CHECK_DEADLOCK FALSE
