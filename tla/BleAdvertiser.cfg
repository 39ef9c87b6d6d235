SPECIFICATION Spec
CONSTANTS
  Threads = {t1, t2}
  Callbacks = {a, b}
  MaxHandle = 2
  MaxCalls = 3
  MaxDeaths = 1
SYMMETRY Symmetry
INVARIANTS
  SetsCanBeStopped
  OneHandlePerCallback
CHECK_DEADLOCK FALSE
