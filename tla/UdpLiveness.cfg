SPECIFICATION FairSpec
CONSTANTS
  SeqMod = 8
  AckBits = 2
  MaxRetries = 1
  Channels = {"ReliableOrdered"}
  MaxSend <- Send11
  MaxInc = 1
PROPERTY RetransmissionEnds
