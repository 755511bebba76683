CONSTANTS
  i1 = i1
  i2 = i2
  rows = rows
  Invocations = {i1, i2}
  Kinds = {rows}
  MaxTxns = 2
  MaxCrashes = 2
  MaxTampers = 2
SPECIFICATION Spec
INVARIANTS NothingLost MovedByIntent RecordsFindFiles
PROPERTIES NothingDestroyed IntentsComplete ImplementsInventory
CHECK_DEADLOCK FALSE
