CONSTANTS
  c1 = c1
  c2 = c2
  c3 = c3
  N = 3
  Coded <- TwoCoded
  Marker <- TwoMarker
  Func <- TwoFunc
  Wrong <- TwoWrong
  MaxInFlight = 2
  Restarts = TRUE

SPECIFICATION Spec

INVARIANTS
  TypeOK
  HonestPeersNotBlamed

PROPERTIES
  TaintIsReceived
  VerifiedIsBacked
  DonePiecesPass
CHECK_DEADLOCK FALSE
