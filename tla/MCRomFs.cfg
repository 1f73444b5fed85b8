SPECIFICATION Spec
CONSTANTS
  Lists <- MCLists
  Asked <- MCAsked
  Base = 4
  Case = 10
  MaxName = 2
  MaxFds = 2
  Chunks = {1, 4}
  Offsets <- MCOffsets
INVARIANTS
  ReadsBack
  ListsAll
