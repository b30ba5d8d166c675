CONSTANTS
  Cap = 3
  HashCap = 4
  LowHeap = TRUE
SPECIFICATION Spec
INVARIANTS
  TableIsSound
  
PROPERTY ImplementsIdTable
