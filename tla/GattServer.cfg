SPECIFICATION Spec
CONSTANTS
  Devices <- TwoDevices
  Services <- MCServices
  Handles <- MCHandles
  ServiceOf <- MCServiceOf
  Descriptors <- MCDescriptors
  NoRequest = NoRequest
  MaxEvents = 2
  MaxConnects = 2
  MaxDeaths = 1
INVARIANTS PendingOfOneKind PendingAreTheUnanswered AnswerFitsRequest
PROPERTY RequestsReachApplication
CHECK_DEADLOCK FALSE
