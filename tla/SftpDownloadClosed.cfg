SPECIFICATION Spec
CONSTANTS
  ChunkSize = 2
  MaxInFlight = 3
  MaxChunks = 6
INVARIANTS
  ErrorReported
CHECK_DEADLOCK FALSE
