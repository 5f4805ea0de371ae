SPECIFICATION Spec
CONSTANTS
  NCpus = 2
  SubbufSize = 2
  NSubbufs = 2
  MaxBody = 1
  MaxInputs = 2
INVARIANT
  SwitchKeepsOutput
CHECK_DEADLOCK FALSE
