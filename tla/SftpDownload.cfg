SPECIFICATION Spec
CONSTANTS
  ChunkSize = 2
  MaxInFlight = 3
  MaxChunks = 6
INVARIANTS
  TypeOK
  EveryAnswerExpected
  HandleClosedLast
  OkMeansComplete
  ReportedOnce
  NothingPastEof
PROPERTIES
  DownloadResolves
CHECK_DEADLOCK FALSE
