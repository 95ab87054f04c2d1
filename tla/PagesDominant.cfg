SPECIFICATION Spec
CONSTANTS
  Fields <- MCFields
  Condition <- MCCondition
  Identity <- MCIdentity
  Records <- MCRecords
  Collections <- MCCollections
  Arrivals <- MCArrivals
  NAME = 1
  REASON = 3
  MAX_PAGE = 3
  Limits = {0, 1, 3}
  MaxLen = 3
  Departures = {1}
  StartLengths = {3}
  StateSizes = {1, 2}
  NoteSizes = {3, 4}
  BlobSizes = {9, 10}
  BUDGET = 60
  ENVELOPE = 6
  CURSOR = 2
  SUFFIX = 2
  STUB = 8
INVARIANT NothingDroppedUnnamed
CHECK_DEADLOCK FALSE
