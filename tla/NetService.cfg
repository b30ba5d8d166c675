CONSTANTS
  MaxSocket = 2
  Services = {"service"}
  WBufferMax = 2
  RBufferMax = 1
  MaxIn = 1
  MaxBacklog = 1
  MaxSend = 2
SPECIFICATION Spec
INVARIANTS
  SocketsOK
  OutputOK
  EventsAreOpen
