SPECIFICATION Spec
CONSTANTS
  MaxTimestamp = 1
  MaxCounter = 1
  PoolWords = 3
  WordSpan = 8
  p1 = p1
  p2 = p2
  p3 = p3
  Procs <- MCProcs
  Pids <- MCPids
  Readings <- MCReadings
  MaxFills = 3
  Recycled = FALSE
SYMMETRY MCSymmetry
INVARIANTS
  TypeOK
PROPERTIES
  NoSharedEntropy
  FirstIdStartsAfresh
  EachProcessIncreases
CHECK_DEADLOCK FALSE
