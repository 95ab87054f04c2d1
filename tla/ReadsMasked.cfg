SPECIFICATION Spec
CONSTANTS
  Operations <- InterfacesOnly
  MaxFanout = 2
  MaxRows = 3
INVARIANT EmptyIsAnswered
CHECK_DEADLOCK FALSE
