SPECIFICATION Spec
CONSTANTS
  SeqMod = 8
  AckBits = 2
  MaxRetries = 1
  Channels = {"ReliableOrdered"}
  MaxSend <- Send20
  MaxInc = 2
INVARIANT OrderedInv
PROPERTY LifecycleForward
