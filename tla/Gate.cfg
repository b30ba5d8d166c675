CONSTANTS
  MaxSocket = 3
  Services = {"gate", "node"}
  WBufferMax = 1
  RBufferMax = 1
  MaxIn = 1
  MaxBacklog = 1
  Cap = 2
  HashCap = 3
  LowHeap = TRUE
  NeedVerify = TRUE
  WorldUp = TRUE
  LoginTimeout = 0
  LiveTime = 1
  LogoutTimeout = 0
  StepMax = 1
  MsgSize = 1
SPECIFICATION Spec
INVARIANTS
  TablesAgree
  LogoutIsHalfclose
  AbortCause
