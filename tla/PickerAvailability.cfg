CONSTANTS
  p1 = p1
  p2 = p2
  fast = fast
  NumPieces = 3
  BlocksPerPiece = 1
  BlocksInLast = 1
  Peers <- TwoPeers
  Priorities = {0, 2, 5}
  Speeds <- OneSpeed
  LateBitfields = FALSE
  MaxDownloads = 1
  MaxRequests = 1
SPECIFICATION Spec
INVARIANTS BucketsCurrent CursorsExact CountersExact AvailabilityExact HigherNumberNotLater
SYMMETRY Symmetry
