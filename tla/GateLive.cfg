CONSTANTS
  MaxSocket = 3
  Services = {"gate", "node"}
  WBufferMax = 1
  RBufferMax = 2
  MaxIn = 1
  MaxBacklog = 1
  Cap = 1
  HashCap = 3
  LowHeap = TRUE
  NeedVerify = TRUE
  WorldUp = TRUE
  LoginTimeout = 0
  LiveTime = 0
  LogoutTimeout = 0
  StepMax = 0
  MsgSize = 2
SPECIFICATION FairSpec
INVARIANT TablesAgree
PROPERTIES
  LoginEnds
  LogoutEnds
