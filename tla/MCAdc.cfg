SPECIFICATION FairSpec
CONSTANTS
  NumAdc = 2
  Counts = {1, 2}
  LogLens = {0, 1}
  Habits = {"smooth", "live", "clock", "oom"}
  MaxCalls = 3
  MaxConv = 6
INVARIANTS
  Served
  Filed
  SumIsRing
  RequestKept
PROPERTIES
  WarmMeansFull
  WaitEndsIfConverting
CHECK_DEADLOCK FALSE
