SPECIFICATION Spec
CONSTANTS
  Clients = {c1, c2}
  Prefabs = {p}
  InitData = {FALSE}
  ServerMax = 2
  ClientMax = 2
  Payloads = {1, 2, 3}
  ServerPayload = 2
  ClientPayload = 1
  FreshManagers = TRUE
  MaxSpawns = 2
  MaxCalls = 2
  MaxJoins = 2
  MaxQueue = 2
INVARIANTS BridgesInv MirrorConverges CallsInv
SYMMETRY Symmetry
CHECK_DEADLOCK FALSE
