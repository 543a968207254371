SPECIFICATION Spec
CONSTANTS
  MaxTimestamp = 1
  MaxCounter = 1
  PoolWords = 2
  WordSpan = 8
  Threads = {t1, t2}
  Procs <- MCProcs
  Sizes <- MCSizes
  Readings <- MCReadings
  MaxCalls = 3
INVARIANTS
  TypeOK
PROPERTIES
  BatchesAreAtomic
  EveryThreadGetsOn
CHECK_DEADLOCK FALSE
