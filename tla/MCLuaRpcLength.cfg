SPECIFICATION Spec
CONSTANTS
  Values <- MCValues
  MaxLinkErrs = 2
  Stack = 255
  MaxLost = 0
  MaxStream = 12
INVARIANTS
  StaysUp
CHECK_DEADLOCK FALSE
