SPECIFICATION FairSpec
CONSTANTS
  Batch <- MCBatch3
  Pages <- MCPages3
  PageBytes <- MCBytes3
  PagesOfA = 2
  PagesOfB = 4
  BytesOfA = 10
  BytesOfB = 10
  Rejected = {"c"}
  Alike = {"a", "b"}
  MAX_PAGES = 1
  MAX_COMMANDS = 3
  Requests <- MCRequests3
  ION_MAX = 60
  BUDGET = 100
  MIN_CAP = 5
  ENVELOPE = 20
INVARIANT TypeOK
INVARIANT OwnOutput
INVARIANT FailsByItself
INVARIANT EffectsInOrder
INVARIANT NothingLeftOpen
PROPERTY CallReturns
CHECK_DEADLOCK FALSE
