SPECIFICATION FairSpec
CONSTANTS
  Fields <- MCFields
  Condition <- MCCondition
  Identity <- MCIdentity
  Records <- MCRecords
  Collections <- MCCollections
  Arrivals <- MCArrivals
  NAME = 1
  REASON = 3
  MAX_PAGE = 3
  Limits = {0, 1, 3}
  MaxLen = 3
  Departures = {1}
  StartLengths = {0, 1, 2, 3}
  StateSizes = {0, 1}
  NoteSizes = {0, 3}
  BlobSizes = {0, 9, 30, 70}
  BUDGET = 60
  ENVELOPE = 6
  CURSOR = 2
  SUFFIX = 2
  STUB = 8
INVARIANT TypeOK
INVARIANT ExactlyOnce
INVARIANT ShownIsFetched
INVARIANT ConditionNeverHeld
INVARIANT TruncationDeclared
INVARIANT OverflowIsTheSuffix
PROPERTY WalkSpec
PROPERTY WalkEnds
CHECK_DEADLOCK FALSE
