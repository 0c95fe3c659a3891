SPECIFICATION Spec
CONSTANTS
  Peer = {p1, p2}
  MAX_PEERS = 2
  TIMEOUT = 1
  Block = {b1, b2, b3}
  Freed = Freed
  Wild = Wild
  QueueCap = 1
  NoPeer = NoPeer
  Leaver = p1
SYMMETRY BlockSymmetry
INVARIANTS
  TypeOK
  WellFormed
  NoDoubleFree
  OptionInRange
  ChosenWasShown
  ShownIsFresh
PROPERTIES
  TableSpec
  OnlySilentLeave
