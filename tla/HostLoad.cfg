SPECIFICATION LoadSpec
CONSTANTS
  host = host
  c1 = c1
  sa = sa
  nobody = nobody
  ObjectNames <- MCObjectNames
  BLUETOOTH_HOST = host
  Clients <- OneClient
  SaThread = sa
  NoThread = nobody
  MaxStarts = 2
  MaxFuncs = 0
  MaxUpdates = 0
  MaxLoads = 2
INVARIANT HandledStartIsNotGivenUp
PROPERTY LoadsReturn
\* the loads are over
CHECK_DEADLOCK FALSE
