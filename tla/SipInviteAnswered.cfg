SPECIFICATION Spec
CONSTANTS
  CallIds = {"c1", "c2"}
  NoAnswer = NoAnswer
  UdpPeers = {"u1", "u2"}
  TcpPeers = {"t1"}
  HeaderSets <- MCHeaderSets
  MaxLeftover = 2
INVARIANT AuthorizedInviteAnswered
