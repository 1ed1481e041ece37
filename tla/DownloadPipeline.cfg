CONSTANTS
  p1 = p1
  p2 = p2
  Nobody = Nobody
  Peers = {p1, p2}
  Seeds = {p1}
  FastPeers = {p2}
  WholePeers = {p2}
  NumBlocks = 3
  BlocksPerPiece = 2
  QueueSize = 2
  Snubbable = {p2}
  Fickle = {p2}
  Disorderly = {p2}
SPECIFICATION Spec
INVARIANTS TypeOK QueuesDistinct RequestsExact OneWrite OneHash BlameExact NeverDies
CHECK_DEADLOCK FALSE
