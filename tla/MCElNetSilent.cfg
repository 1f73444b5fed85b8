SPECIFICATION FairSpec
CONSTANTS
  NumConns = 1
  Peers = {p1}
  NoPeer = NoPeer
  Mss = 2
  Windows = {2}
  MaxRtx = 1
  Sizes = {3}
  Newlines = {2}
  PeerBytes = 3
  MaxCalls = 3
PROPERTIES
  SendReturns
CHECK_DEADLOCK FALSE
