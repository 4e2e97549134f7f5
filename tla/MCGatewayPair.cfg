CONSTANTS
  Conn = {1, 2}
  Child = {1}
  Answering = {1}
  Spec0 <- OneChild
  QueueCap = 1
  FaultKinds = {"lose", "http", "write"}
  MaxFaults = 1
SPECIFICATION FairSpec
PROPERTIES  PresentIsUp
