SPECIFICATION Spec
CONSTANTS
  Peers = {p1}
  Local = Local
  Host = TRUE
  MaxClients = 3
  MaxData = 1
  MaxQueue = 1
  MaxLosses = 1
  MaxLocals = 1
  MaxStops = 1
INVARIANTS EntriesDistinct IdentityAgrees
CHECK_DEADLOCK FALSE
