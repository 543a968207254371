SPECIFICATION Spec
CONSTANTS
  Interpreters <- MCInterpreters
  MaxRuns = 2
  MaxSources = 2
INVARIANTS
  TypeOK
  EvidenceIsWhole
  MeasuredAlone
PROPERTIES
  RunEnds
  ForkedChildrenEnd
CHECK_DEADLOCK FALSE
