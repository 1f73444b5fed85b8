CONSTANTS
  Sizes = {1, 2, 4}
  Bytes = 2
  MaxPuts = 7
SPECIFICATION FairSpec
INVARIANTS
  PointersAgree
  NoUnderflow
  CopyIntact
  MostRecent
PROPERTIES
  ImplementsFifo
  Drains
