CONSTANTS
  Conns = {0, 1}
  Cap = 3
  MaxQuery = 4
  MaxCommand = 2
  MaxBatch = 2
SPECIFICATION Spec
INVARIANTS
  BufferOK
  RepliesReachCallers
  AbortCause
