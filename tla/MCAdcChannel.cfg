SPECIFICATION FairSpec
CONSTANTS
  NumAdc = 2
  Counts = {1, 2}
  LogLens = {0}
  Habits = {}
  MaxCalls = 3
  MaxConv = 6
INVARIANTS
  OwnChannel
CHECK_DEADLOCK FALSE
