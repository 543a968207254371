SPECIFICATION RoundsSpec
CONSTANTS
  N = 2
  Calls = 2
  Kinds = {"records", "timed", "contention", "control"}
  Histories <- MCHistories
  MaxClock = 2
INVARIANTS
  RoundsTypeOK
  OracleAcceptsRounds
  OracleIsExact
  DurationCoversCalls
PROPERTY RoundEnds
CHECK_DEADLOCK FALSE
