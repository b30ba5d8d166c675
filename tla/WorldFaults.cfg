CONSTANTS
  Cap = 1
  HashCap = 2
  LowHeap = TRUE
  Conns = {0, 1, 2}
  Accounts = {a1, a2}
  Names = {"a"}
  OldDatabase = TRUE
  CreateTimes = 2
  MaxChar = 2
  MaxWire = 2
  Faults = {"nodb", "error", "noreply"}
SPECIFICATION Spec
SYMMETRY Symmetry
INVARIANTS
  BoundCharLoads
  WaitIsAnswered
  AbortCause
PROPERTY GameIsFinal
