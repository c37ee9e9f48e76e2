SPECIFICATION FairSpec
CONSTANTS
  Peers = {p1, p2}
  Local = Local
  Host = FALSE
  MaxClients = 1
  MaxData = 1
  MaxQueue = 1
  MaxLosses = 0
  MaxLocals = 0
  MaxStops = 0
INVARIANT SlotsBounded
PROPERTIES ConnectAttemptEnds RemovedIsTold
CHECK_DEADLOCK FALSE
