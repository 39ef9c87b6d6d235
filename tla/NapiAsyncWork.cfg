SPECIFICATION Spec
CONSTANTS
  MaxRequests = 3
INVARIANTS
  CalledTwiceOnlyAroundTimeout
  AnswersReachTheirCall
PROPERTIES
  CallsSettle
CHECK_DEADLOCK FALSE
