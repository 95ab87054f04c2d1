SPECIFICATION Spec
CONSTANTS
  Strip <- MCStrip
  Lower <- MCLower
  Within <- MCWithin
  SiteLists <- MCSiteLists
  ElementLists <- MCElementLists
  Values <- MCValues
  Absent = "absent"
  Blank = ""
  None = "none"
INVARIANT TypeOK
INVARIANT NeverOtherSite
INVARIANT NeverAutoPicked
INVARIANT PassedOverForABetter
CHECK_DEADLOCK FALSE
