SPECIFICATION LiveSpec
CONSTANTS
  t1 = t1
  t2 = t2
  Threads <- TwoThreads
  Modes <- OtherMode
  MaxId = 3
  MaxCalls = 3
  MaxChanges = 2
INVARIANTS
  ExpiredNumberIsReset
  NothingLeftAtService
  CheckedNumberIsKnown
  NoFunctionAfterDestruction
  RegisteredAsAsked
PROPERTY CallsReturn
\* the calls are over, or the manager is gone
CHECK_DEADLOCK FALSE
