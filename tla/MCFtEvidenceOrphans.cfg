SPECIFICATION Spec
CONSTANTS
  Interpreters <- MCInterpreters
  MaxRuns = 1
  MaxSources = 1
PROPERTY ProbesAreBounded
CHECK_DEADLOCK FALSE
