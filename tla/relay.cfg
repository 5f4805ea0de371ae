SPECIFICATION FairSpec
CONSTANTS
  NCpus = 2
  SubbufSize = 2
  NSubbufs = 2
  MaxBody = 2
  MaxInputs = 2
INVARIANTS
  TypeOK
  OrderKept
  
  NoSilentLoss
PROPERTIES
  Delivered
  ReadersEnd
CHECK_DEADLOCK FALSE
