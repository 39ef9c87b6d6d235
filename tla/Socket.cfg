SPECIFICATION SocketSpec
CONSTANTS
  Threads <- TwoThreads
  Servers <- OneServer
  Clients <- ThreeClients
  MaxFd = 3
  MaxObject = 2
  MaxCalls = 3
  MaxOthers = 1
INVARIANTS
  ResourcesReturned
  OwnDescriptorsOnly
PROPERTIES
  BlockedCallsReturn
CHECK_DEADLOCK FALSE
