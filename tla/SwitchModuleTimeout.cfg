SPECIFICATION Spec
CONSTANT MaxRequests = 2
PROPERTY GivenUpByOwnTimeout
\* BluetoothHost::Close ends the module
CHECK_DEADLOCK FALSE
