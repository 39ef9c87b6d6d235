SPECIFICATION Spec
CONSTANT MaxRequests = 5
INVARIANTS TimeoutCoversAction StrandedOnlyByFailedAction InOrderUnlessDisturbed
PROPERTIES LastRequestSurvivesReport ImplementsLedger RequestsSettle
\* BluetoothHost::Close ends the module
CHECK_DEADLOCK FALSE
