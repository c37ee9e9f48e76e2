SPECIFICATION Spec
CONSTANTS
  Window = 2
  MaxCounter = 3
  MaxQueue = 2
  MaxSession = 2
  LbTransports = {s, t}
  LbPortCount = 8
  LbFirstPort = 7
  LbServerPorts = {2, 3}
  LbLatencies = {0, 1}
  LbDisciplined = TRUE
  LbMaxConnects = 2
  LbMaxSends = 2
  SimSettings <- OneDelay
  SimMaxPackets = 2
  SimMaxConnects = 2
  WsMaxMessages = 3
  Discos = {d, e}
  LanServers = {d}
  LanInterval = 2
  LanPlayers = {0, 1}
  LanBuffer = 1
  LanMaxGap = 2
  LanMaxForeign = 1
INVARIANTS SharedStateInv TransportsInOrder NoReplay
PROPERTIES FreshAccepted WsDelivered LanFound
CHECK_DEADLOCK FALSE
