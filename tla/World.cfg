CONSTANTS
  Cap = 2
  HashCap = 2
  LowHeap = TRUE
  Conns = {0, 1}
  Accounts = {a1, a2}
  Names = {"a"}
  OldDatabase = FALSE
  CreateTimes = 1
  MaxChar = 2
  MaxWire = 2
  Faults = {}
SPECIFICATION Spec
SYMMETRY Symmetry
INVARIANTS
  TableOK
  GameIsBound
  RecordIsOwn
  NamesAreUnique
