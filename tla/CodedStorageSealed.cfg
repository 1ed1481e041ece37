CONSTANTS
  c1 = c1
  c2 = c2
  c3 = c3
  N = 3
  Coded <- MCCoded
  Marker <- MCMarker
  Func <- MCFunc
  Wrong = {}
  MaxInFlight = 2
  Restarts = FALSE

SPECIFICATION Spec

INVARIANTS
  SealedOnlyWhenDone

CHECK_DEADLOCK FALSE
