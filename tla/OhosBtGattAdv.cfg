SPECIFICATION Spec
CONSTANTS
  MAX_BLE_ADV_NUM = 2
  MaxStarts = 3
  MaxDeaths = 1
  Addressed <- FirstAndLast
INVARIANTS
  SetsHaveAnAdvId
  StartFindsAdvertiser
  AddressedSetsTimed
CHECK_DEADLOCK FALSE
