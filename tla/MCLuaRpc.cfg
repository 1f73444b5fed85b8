SPECIFICATION FairSpec
CONSTANTS
  Values <- MCValues
  MaxLinkErrs = 2
  Stack = 255
  MaxLost = 1
  MaxStream = 12
INVARIANTS
  HandleInStep
  RightAnswer
PROPERTIES
  RunsAsAsked
  Recovers
CHECK_DEADLOCK FALSE
