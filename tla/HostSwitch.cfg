SPECIFICATION HostSpec
CONSTANTS
  MaxRequests = 4
  MaxNoAutoCalls = 1
INVARIANTS QuietMeansWanted NoAutoConnectConsumedOnce
PROPERTY HostSettles
\* BluetoothHost::Close ends the module
CHECK_DEADLOCK FALSE
