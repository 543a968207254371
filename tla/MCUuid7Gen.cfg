SPECIFICATION Spec
CONSTANTS
  MaxTimestamp = 3
  MaxCounter = 2
  PoolWords = 3
  WordSpan = 16
  Pid = 1
  Realtime <- MCRealtime
  Requests <- MCRequests
  MaxFills = 3
  MaxEpochs = 1
INVARIANTS
  TypeOK
  TimestampTracksClock
PROPERTIES
  LiveOrder
  PlaceMovesOnlyByIssuing
  NoGapInAMillisecond
  EntropyIsFresh
  ExhaustedExactlyAtTheEnd
CHECK_DEADLOCK FALSE
