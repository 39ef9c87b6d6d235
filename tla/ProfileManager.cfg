SPECIFICATION Spec
CONSTANTS
  host = host
  gatt = gatt
  c1 = c1
  c2 = c2
  sa = sa
  nobody = nobody
  ObjectNames <- MCObjectNames
  BLUETOOTH_HOST = host
  Clients <- OneClient
  SaThread = sa
  NoThread = nobody
  MaxStarts = 2
  MaxFuncs = 1
  MaxUpdates = 1
INVARIANTS RunningServiceIsFound NoRegistrationMissed DeadRemoteOnlyIfOvertaken
PROPERTY CallsReturn
