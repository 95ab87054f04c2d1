SPECIFICATION Spec
CONSTANTS
  Interfaces = {i1, i2, i3}
  Addresses = {routable, shared}
  SharedSpace = {shared}
  Uses <- MCUses
  StatusFails = TRUE
  MaxFlaps = 1
INVARIANT TypeOK
INVARIANT AddressJustified
CHECK_DEADLOCK FALSE
