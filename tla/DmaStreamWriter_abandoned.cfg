SPECIFICATION Spec
CONSTANTS
  BufferSize = 2
  WriteBehind = 2
  MayAbandon = TRUE
  MaxPos = 5
  MaxFailures = 0
INVARIANTS FlushedReadable
CHECK_DEADLOCK FALSE
