CONSTANTS
  a = a
  b = b
  c = c
  Clients <- TwoClients
  HighPriority = {}
  Timeouts = {1}
  Limits = {0, 1}
  MaxPosted = 1
SPECIFICATION Spec
PROPERTIES EveryAttemptEnds WaitingIsServed
