SPECIFICATION FairToolSpec
CONSTANTS
  Operations <- AllOperations
  MaxFanout = 2
  MaxRows = 3
  Capabilities <- MCCapabilities
  BODY_NAMES <- MCBodyNames
  MAX_ATTEMPTS = 3
INVARIANT ToolTypeOK
INVARIANT ErrorsTold
INVARIANT CutsFlagged
INVARIANT LookupsBounded
INVARIANT ArgumentsKept
INVARIANT RetryAdvised
PROPERTY ToolReturns
CHECK_DEADLOCK FALSE
