CONSTANTS
  Zones <- MCZones
  Subs <- MCSubs
  MaxConn = 4
  MaxCrashes <- MCMaxCrashes
SPECIFICATION FairSpec
INVARIANTS
  
  LinkIsShared
PROPERTIES
  EverybodyMeets
CHECK_DEADLOCK FALSE
