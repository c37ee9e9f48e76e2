SPECIFICATION Spec
CONSTANTS
  SeqMod = 8
  AckBits = 2
  MaxRetries = 1
  Channels = {"ReliableOrdered"}
  MaxSend <- Send21
  MaxInc = 1
INVARIANTS OrderedDelivery AckedWasDelivered
PROPERTIES ReportedIsReleased ImplementsStream
