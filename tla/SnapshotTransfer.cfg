SPECIFICATION FairSpec
CONSTANTS
  x1 = x1
  x2 = x2
  Receiver = 2
  Senders = {1}
  Contents <- MCContents
  Transfers = {x1, x2}
  Count = 2
  MaxVersion = 1
  MaxTerm = 2
INVARIANTS TypeOK AckMeansHeld
PROPERTIES StateForward ImplementsWhole TransferAcked
CHECK_DEADLOCK FALSE
