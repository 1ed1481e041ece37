CONSTANTS
  p1 = p1
  p2 = p2
  fast = fast
  NumPieces = 3
  BlocksPerPiece = 2
  BlocksInLast = 1
  Peers <- OnePeer
  Priorities = {}
  Speeds <- OneSpeed
  LateBitfields = FALSE
  MaxDownloads = 2
  MaxRequests = 2
SPECIFICATION Spec
INVARIANTS TypeOK BlockCountsExact SlotsExact
PROPERTIES OtherPiecesUntouched SortedUntilWriteFails
