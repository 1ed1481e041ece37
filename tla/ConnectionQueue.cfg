CONSTANTS
  a = a
  b = b
  c = c
  Clients <- AllClients
  HighPriority <- OneHigh
  Timeouts = {1, 2}
  Limits = {0, 2}
  MaxPosted = 1
SPECIFICATION Spec
INVARIANTS TypeOK NumConnectingExact TimerCoversConnecting NeverStalls
  LiveAttemptIsTracked TimedOutStillConnecting
PROPERTIES SlotsWithinLimit
SYMMETRY Symmetry
