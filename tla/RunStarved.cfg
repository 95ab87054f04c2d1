SPECIFICATION Spec
CONSTANTS
  Batch <- MCBatch
  Pages <- MCPages
  PageBytes <- MCBytes
  PagesOfA = 1
  PagesOfB = 1
  BytesOfA = 90
  BytesOfB = 35
  Rejected = {}
  Alike = {}
  MAX_PAGES = 1
  MAX_COMMANDS = 3
  Requests <- MCRequests
  ION_MAX = 60
  BUDGET = 100
  MIN_CAP = 5
  ENVELOPE = 20
INVARIANT SiblingsNotStarved
CHECK_DEADLOCK FALSE
