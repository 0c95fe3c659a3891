SPECIFICATION IdleSpec
CONSTANTS
  Peer = {p1, p2}
  MAX_PEERS = 2
  TIMEOUT = 0
  Block = {b1, b2, b3}
  Freed = Freed
  Wild = Wild
  QueueCap = 1
  NoPeer = NoPeer
  Leaver = p1
PROPERTIES
  StoppedPeersLeave
