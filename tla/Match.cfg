CONSTANTS
  Cap = 2
  HashCap = 2
  LowHeap = TRUE
  c1 = c1
  c2 = c2
  c3 = c3
  Chars = {c1, c2, c3}
  Settings <- MCSettings
  MaxKey = 2
  MaxWire = 1
SPECIFICATION Spec
SYMMETRY Symmetry
INVARIANTS
  StatusIsExact
  RoomIsTheirs
  AwardIsOwn
  LoadIsRooms
