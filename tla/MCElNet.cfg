SPECIFICATION FairSpec
CONSTANTS
  NumConns = 2
  Peers = {p1, p2}
  NoPeer = NoPeer
  Mss = 2
  Windows = {2}
  MaxRtx = 1
  Sizes = {3}
  Newlines = {2}
  PeerBytes = 3
  MaxCalls = 3
INVARIANTS
  SentArrived
  NothingLost
  AcceptedOnce
PROPERTIES
  ShortMeansError
  CallsEnd
  SendEnds
CHECK_DEADLOCK FALSE
