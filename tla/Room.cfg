CONSTANTS
  Conns = {1, 2}
  Teams <- MCTeams
  Chars = {"a", "b"}
  Oxygen = 1
  Quick = 1
  Items <- MCItems
  Ticks = 2
  Settings <- MCSettings
SPECIFICATION FairSpec
INVARIANTS
  
  
  BuffsEnd
  
 
CHECK_DEADLOCK FALSE
