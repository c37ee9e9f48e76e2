SPECIFICATION Spec
CONSTANTS
  Entities = {a, b}
  Clients = {c1}
  Values = {0, 1}
  NoValue = NoValue
  SnapMod = 8
  MaxSnapshots = 3
  FullSyncInterval = 3
  MaxBaselineAge = 2
  FreshManagers = TRUE
  MaxDelay = 1
  MaxSilence = 3
  MaxWrites = 1
  MaxJoins = 2
INVARIANTS BaselineInv JoinerComplete
PROPERTY BaselineNeverBack
