SPECIFICATION FairSpec
CONSTANTS
  Entities = {a, b}
  Clients = {c1}
  Values = {0, 1}
  NoValue = NoValue
  SnapMod = 4
  MaxSnapshots = 2
  FullSyncInterval = 2
  MaxBaselineAge = 1
  FreshManagers = TRUE
  MaxDelay = 1
  MaxSilence = 8
  MaxWrites = 2
  MaxJoins = 1
PROPERTY Converges
