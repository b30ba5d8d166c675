CONSTANTS
  Conns = {0, 1}
  Cap = 3
  MaxQuery = 2
  MaxCommand = 2
  MaxBatch = 1
SPECIFICATION FairSpec
PROPERTIES
  Reconnects
  
