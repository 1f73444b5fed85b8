SPECIFICATION Spec
CONSTANTS
  NumConns = 1
  Peers = {p1}
  NoPeer = NoPeer
  Mss = 2
  Windows = {1, 2}
  MaxRtx = 1
  Sizes = {3}
  Newlines = {2}
  PeerBytes = 3
  MaxCalls = 3
INVARIANTS
  SentArrived
CHECK_DEADLOCK FALSE
