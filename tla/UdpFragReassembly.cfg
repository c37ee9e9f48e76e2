SPECIFICATION Spec
CONSTANTS
  SeqMod = 4
  AckBits = 1
  MaxRetries = 1
  Channels = {"ReliableUnordered"}
  Counts <- Small
  MaskBits = 2
  MaxSend = 2
  MaxQueue = 2
INVARIANTS AssembliesInv AssembledIntact ReassembledWhenArrived
