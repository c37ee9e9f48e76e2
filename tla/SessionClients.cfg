SPECIFICATION Spec
CONSTANTS
  Peers = {p1, p2}
  Local = Local
  Host = FALSE
  MaxClients = 2
  MaxData = 1
  MaxQueue = 1
  MaxLosses = 0
  MaxLocals = 0
  MaxStops = 0
SYMMETRY Symmetry
INVARIANTS TypeOK CallbacksTrackClients ReplicationTracksClients ClientCallbackOrder
CHECK_DEADLOCK FALSE
