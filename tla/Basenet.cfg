SPECIFICATION FairSpec
CONSTANTS
  MaxFanout = 4
  Limits = {1, 3, 5}
  MaxLegs = 12
INVARIANT TypeOK
INVARIANT LegsOnce
PROPERTY WalkSpec
PROPERTY WalkEnds
CHECK_DEADLOCK FALSE
