SPECIFICATION FairSpec
CONSTANTS
  File <- MCFile
  BlockMod = 3
  RetryLimit = 3
  InitialBlocks = 1
  MoreBlocks = 2
  CrcSender = TRUE
  FaultKinds = {"lost", "damaged", "framing", "reply"}
  MaxFaults = 3
INVARIANTS
  BufferHolds
  DoneMeansWhole
  PerfectLineDelivers
  PrefixReceived
PROPERTIES
  Returns
CHECK_DEADLOCK FALSE
