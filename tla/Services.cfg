SPECIFICATION Spec
CONSTANTS
  RlClients = {c1, c2}
  RlMessages <- OneBurstTwo
  RlBytes <- OneBurstThree
  RlRpcs <- OneBurstTwo
  RlOneRpc <- OneBurstTwo
  RlSizes = {1, 3}
  RlMaxTime = 2
  RlMaxEvents = 4
  TsOffsets = {0, 5}
  TsInterval = 1
  TsMaxTime = 7
  TsMaxSamples = 3
  TokTimeMod = 16
  TokExpiryMod = 4
  TokMaxExpiry = 3
  TokSecrets = {s, none}
  TokNoSecret = none
  TokMaxTime = 4
  TokMaxIssued = 2
  TokMaxBoots = 1
  ClkInterval = 4
  ClkLatencies = {0, 3, 6}
  ClkFrames = {1, 3, 5}
  ClkFar = 4
  IbTickMod = 16
  IbRing = 4
  IbDelay = 3
  IbLead = 3
  IbFirst = 1
  IbMaxTick = 18
  LagEntities = {e1}
  LagTickMod = 4
  LagRing = 3
  LagRtts = {0, 3, 8}
  LagInterval = 2
  LagMaxTick = 7
  SbEntities = {e}
  SbRing = 3
  SbDelay = 1
  SbMaxSnaps = 4
  SbMaxTime = 3
  SpEntities = {e1, e2}
  SpPoints <- Points
  SpRadii = {0, 1, 3}
  SpDefaults = {1, 2}
  SpCellSizes = {1, 2}
  SpCaps = {0, 1}
  SpDisciplined = TRUE
  BsByte = 3
  BsVarintBytes = 3
  BsMaxString = 2
  BsMaxVector = 1
  BsShift = 3
  BsLittle = TRUE
  BsItems <- Items
  BsMaxItems = 3
INVARIANTS RateLimitsInv ConnectionTokenInv ClocksInv RingsInv SpatialInterestInv BitStreamInv
PROPERTIES ClkSettles SbForward
CHECK_DEADLOCK FALSE
